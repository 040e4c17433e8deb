------------------------- MODULE OrchestratorProofs -------------------------
(* Machine-checked theorems about Orchestrator, for every value of its     *)
(* constants.                                                              *)
EXTENDS Orchestrator, TLAPS

-----------------------------------------------------------------------------
(* What the row helpers return.                                            *)

\* makeStepExecution returns a pending row with the given input.
LEMMA NewStepRow ==
  ASSUME NEW input \in Inputs, NEW t \in Time, NEW at \in Time \cup {None}
  PROVE  /\ NewStep(input, t, at) \in StepRow
         /\ NewStep(input, t, at) # None
         /\ NewStep(input, t, at).status = "Pending"
         /\ NewStep(input, t, at).input = input
BY NoneAssumption DEF NewStep, StepRow, StepStatus

\* A claim yields a running row of its worker and keeps the input.
LEMMA ClaimedRow ==
  ASSUME NEW row \in StepRow, NEW w \in Workers, NEW expiry \in Time
  PROVE  /\ Claimed(row, w, expiry) \in StepRow
         /\ Claimed(row, w, expiry) # None
         /\ Claimed(row, w, expiry).status = "Running"
         /\ Claimed(row, w, expiry).workerId = w
         /\ Claimed(row, w, expiry).input = row.input
BY NoneAssumption DEF Claimed, StepRow, StepStatus

\* A released row has the given status and keeps its input.
LEMMA ReleasedRowFacts ==
  ASSUME NEW row \in StepRow, NEW status \in StepStatus
  PROVE  /\ ReleasedRow(row, status) \in StepRow
         /\ ReleasedRow(row, status) # None
         /\ ReleasedRow(row, status).status = status
         /\ ReleasedRow(row, status).input = row.input
BY NoneAssumption DEF ReleasedRow, StepRow

\* A canceled row is Canceled and keeps its input.
LEMMA CanceledRowFacts ==
  ASSUME NEW row \in StepRow
  PROVE  /\ CanceledRow(row) \in StepRow
         /\ CanceledRow(row) # None
         /\ CanceledRow(row).status = "Canceled"
         /\ CanceledRow(row).input = row.input
BY NoneAssumption DEF CanceledRow, StepRow, StepStatus

\* The current slot of an execution is a key of its step rows.
LEMMA CurrentSlotType ==
  ASSUME TypeOK, NEW e \in Executions, executions[e] # None
  PROVE  /\ executions[e] \in ExecutionRow
         /\ executions[e].currentStepName \in StepNames
         /\ executions[e].currentStepAttempt \in Attempts
         /\ executions[e].workflow \in Workflows
         /\ CurrentSlot(e) \in Slots
BY DEF TypeOK, ExecutionRow, CurrentSlot, Slots

StepRows == [Slots -> StepRow \cup {None}]

\* Releasing the current attempt changes its row only.
LEMMA ReleasedFacts ==
  ASSUME TypeOK, NEW e \in Executions, executions[e] # None,
         steps[e][CurrentSlot(e)] # None, NEW status \in StepStatus
  PROVE  /\ Released(e, status) \in StepRows
         /\ Released(e, status)[CurrentSlot(e)] # None
         /\ Released(e, status)[CurrentSlot(e)].status = status
         /\ Released(e, status)[CurrentSlot(e)].input
              = steps[e][CurrentSlot(e)].input
         /\ \A k \in Slots \ {CurrentSlot(e)} :
              Released(e, status)[k] = steps[e][k]
<1> DEFINE c == CurrentSlot(e)
           row == steps[e][c]
<1>1. c \in Slots /\ row \in StepRow /\ steps[e] \in StepRows
  BY CurrentSlotType DEF TypeOK, StepRows
<1>2. Released(e, status) = [steps[e] EXCEPT ![c] = ReleasedRow(row, status)]
  BY DEF Released
<1>3. /\ ReleasedRow(row, status) \in StepRow
      /\ ReleasedRow(row, status) # None
      /\ ReleasedRow(row, status).status = status
      /\ ReleasedRow(row, status).input = row.input
  BY <1>1, ReleasedRowFacts
<1> QED BY <1>1, <1>2, <1>3 DEF StepRows

\* A failed attempt leaves well-typed rows, in one of two ways: the execution
\* moves to a fresh attempt with the same input, or it fails.
LEMMA FailureFacts ==
  ASSUME TypeOK, BoundsAssumption, NoneAssumption,
         NEW e \in Executions, executions[e] # None,
         DefinitionOf(e) # None, StepDefined(e, executions[e].currentStepName),
         steps[e][CurrentSlot(e)] # None, NEW t \in Time
  PROVE  /\ ExecutionAfterFailure(e) \in ExecutionRow
         /\ StepsAfterFailure(e, t) \in StepRows
         /\ \/ /\ Retries(e)
               /\ executions[e].currentStepAttempt + 1 \in Attempts
               /\ ExecutionAfterFailure(e).status = executions[e].status
               /\ ExecutionAfterFailure(e).workflow = executions[e].workflow
               /\ ExecutionAfterFailure(e).currentStepName
                    = executions[e].currentStepName
               /\ ExecutionAfterFailure(e).currentStepAttempt
                    = executions[e].currentStepAttempt + 1
               /\ StepsAfterFailure(e, t) =
                    [Released(e, "Failed") EXCEPT
                       ![<<executions[e].currentStepName,
                           executions[e].currentStepAttempt + 1>>] =
                         NewStep(steps[e][CurrentSlot(e)].input, t, None)]
            \/ /\ ~Retries(e)
               /\ ExecutionAfterFailure(e).status = "Failed"
               /\ ExecutionAfterFailure(e).workflow = executions[e].workflow
               /\ ExecutionAfterFailure(e).currentStepName
                    = executions[e].currentStepName
               /\ ExecutionAfterFailure(e).currentStepAttempt
                    = executions[e].currentStepAttempt
               /\ StepsAfterFailure(e, t) = Released(e, "Failed")
<1> DEFINE x == executions[e]
           d == DefinitionOf(e)
           c == CurrentSlot(e)
<1>1. /\ x \in ExecutionRow
      /\ x.currentStepName \in StepNames
      /\ x.currentStepAttempt \in Attempts
      /\ x.workflow \in Workflows
      /\ c \in Slots
  BY CurrentSlotType
<1>2. d.steps[x.currentStepName] \in StepDefinition
  <2>1. d \in Definition
    BY <1>1 DEF TypeOK, DefinitionOf
  <2>2. d.steps \in [StepNames -> StepDefinition \cup {None}]
    BY <2>1 DEF Definition
  <2> QED BY <1>1, <2>2 DEF StepDefined
<1>3. d.steps[x.currentStepName].maxRetries \in Attempts
  BY <1>2 DEF StepDefinition
<1>4. /\ Released(e, "Failed") \in StepRows
      /\ steps[e][c].input \in Inputs
  <2>1. "Failed" \in StepStatus
    BY DEF StepStatus
  <2>2. steps[e][c] \in StepRow
    BY <1>1 DEF TypeOK
  <2> QED BY <2>1, <2>2, ReleasedFacts DEF StepRow
<1>5. CASE Retries(e)
  <2>1. x.currentStepAttempt + 1 \in Attempts
    BY <1>1, <1>3, <1>5 DEF Retries, Attempts, BoundsAssumption
  <2>2. ExecutionAfterFailure(e) = [x EXCEPT !.currentStepAttempt = @ + 1]
    BY <1>5 DEF ExecutionAfterFailure
  <2>3. /\ ExecutionAfterFailure(e) \in ExecutionRow
        /\ ExecutionAfterFailure(e).status = x.status
        /\ ExecutionAfterFailure(e).workflow = x.workflow
        /\ ExecutionAfterFailure(e).currentStepName = x.currentStepName
        /\ ExecutionAfterFailure(e).currentStepAttempt
             = x.currentStepAttempt + 1
    BY <1>1, <2>1, <2>2 DEF ExecutionRow
  <2>4. StepsAfterFailure(e, t) =
          [Released(e, "Failed") EXCEPT
             ![<<x.currentStepName, x.currentStepAttempt + 1>>] =
               NewStep(steps[e][c].input, t, None)]
    BY <1>5 DEF StepsAfterFailure
  <2>5. NewStep(steps[e][c].input, t, None) \in StepRow
    BY <1>4, NewStepRow
  <2>6. StepsAfterFailure(e, t) \in StepRows
    BY <1>1, <1>4, <2>1, <2>4, <2>5 DEF StepRows, Slots
  <2> QED BY <1>5, <2>1, <2>3, <2>4, <2>6
<1>6. CASE ~Retries(e)
  <2>1. ExecutionAfterFailure(e) = [x EXCEPT !.status = "Failed"]
    BY <1>6 DEF ExecutionAfterFailure
  <2>2. /\ ExecutionAfterFailure(e) \in ExecutionRow
        /\ ExecutionAfterFailure(e).status = "Failed"
        /\ ExecutionAfterFailure(e).workflow = x.workflow
        /\ ExecutionAfterFailure(e).currentStepName = x.currentStepName
        /\ ExecutionAfterFailure(e).currentStepAttempt = x.currentStepAttempt
    BY <1>1, <2>1 DEF ExecutionRow, ExecutionStatus
  <2>3. StepsAfterFailure(e, t) = Released(e, "Failed")
    BY <1>6 DEF StepsAfterFailure
  <2> QED BY <1>4, <1>6, <2>2, <2>3
<1> QED BY <1>5, <1>6

-----------------------------------------------------------------------------
(* What a step of Next does to one execution e and its rows.  Every        *)
(* invariant below is about single executions, so it is enough to show it  *)
(* for these seven moves.                                                  *)

Same(e) == executions'[e] = executions[e] /\ steps'[e] = steps[e]

Begun(e) ==
  /\ executions[e] = None
  /\ executions'[e] \in ExecutionRow
  /\ executions'[e].status = "Running"
  /\ executions'[e].currentStepAttempt = 0
  /\ definitions[executions'[e].workflow] # None
  /\ executions'[e].currentStepName
       = definitions[executions'[e].workflow].start
  /\ \E row \in StepRow :
       /\ row.status = "Pending"
       /\ steps'[e] =
            [steps[e] EXCEPT ![<<executions'[e].currentStepName, 0>>] = row]

\* A poll claims rows of e, or the owner renews its lease.
Held(e) ==
  /\ executions[e] # None
  /\ executions'[e] = executions[e]
  /\ steps'[e] \in StepRows
  /\ \A k \in Slots :
       \/ steps'[e][k] = steps[e][k]
       \/ /\ Active(e, k)
          /\ steps'[e][k] \in StepRow
          /\ steps'[e][k].status = "Running"
          /\ steps'[e][k].workerId \in Workers
          /\ steps'[e][k].input = steps[e][k].input

\* The current attempt of e is claimed, as every report and sweep requires.
Reportable(e) == IsRunning(e) /\ Has(e, CurrentSlot(e), {"Running"})

Keeps(e, status) ==
  /\ executions'[e] \in ExecutionRow
  /\ executions'[e].status = status
  /\ executions'[e].workflow = executions[e].workflow
  /\ executions'[e].currentStepName = executions[e].currentStepName
  /\ executions'[e].currentStepAttempt = executions[e].currentStepAttempt

Finished(e) ==
  /\ Reportable(e)
  /\ Keeps(e, "Completed")
  /\ steps'[e] = Released(e, "Completed")

Advanced(e) ==
  /\ Reportable(e)
  /\ executions'[e] \in ExecutionRow
  /\ executions'[e].status = "Running"
  /\ executions'[e].workflow = executions[e].workflow
  /\ executions'[e].currentStepAttempt = 0
  /\ DefinitionOf(e) # None
  /\ StepDefined(e, executions'[e].currentStepName)
  /\ \E row \in StepRow :
       /\ row.status = "Pending"
       /\ steps'[e] = [Released(e, "Completed") EXCEPT
                         ![<<executions'[e].currentStepName, 0>>] = row]

Failed(e) ==
  /\ Reportable(e)
  /\ DefinitionOf(e) # None
  /\ StepDefined(e, executions[e].currentStepName)
  /\ executions'[e] = ExecutionAfterFailure(e)
  /\ \E t \in Time : steps'[e] = StepsAfterFailure(e, t)

Canceled(e) ==
  /\ IsRunning(e)
  /\ Keeps(e, "Canceled")
  /\ steps'[e] = CanceledSteps(e)

OneMoves(e) ==
  /\ Begun(e) \/ Held(e) \/ Finished(e) \/ Advanced(e) \/ Failed(e)
     \/ Canceled(e)
  /\ \A f \in Executions \ {e} : Same(f)

Moves ==
  \/ \A e \in Executions : Same(e)
  \/ \E e \in Executions : OneMoves(e)
  \/ \A e \in Executions : Same(e) \/ Held(e)
  \/ \A e \in Executions : Same(e) \/ Failed(e)

\* A row taken from MayReport: the claim of w on the current attempt.
LEMMA ReportFacts ==
  ASSUME TypeOK, NEW e \in Executions, NEW s \in StepNames,
         NEW w \in Workers, NEW t, MayReport(e, s, w, t)
  PROVE  /\ Reportable(e)
         /\ executions[e] # None
         /\ executions[e].currentStepName = s
         /\ DefinitionOf(e) # None
         /\ steps[e][CurrentSlot(e)] # None
         /\ steps[e][CurrentSlot(e)] \in StepRow
         /\ steps[e][CurrentSlot(e)].workerId = w
BY CurrentSlotType
   DEF MayReport, OwnsClaim, Reportable, IsRunning, Has, TypeOK

\* What a transaction reads from the clock is a time.
LEMMA ClockType == ASSUME NEW t \in ClockReadings PROVE t \in Time
BY DEF ClockReadings

\* startWorkflow begins one execution and touches no other.
LEMMA StartMoves ==
  ASSUME TypeOK, BoundsAssumption, NEW w \in Workflows, NEW e \in Executions,
         NEW input \in Inputs, StartWorkflow(w, e, input)
  PROVE  OneMoves(e)
<1> DEFINE x == [workflow |-> w, status |-> "Running",
                 currentStepName |-> definitions[w].start,
                 currentStepAttempt |-> 0]
<1>1. definitions[w] \in Definition
  BY DEF TypeOK, StartWorkflow
<1>2. definitions[w].start \in StepNames /\ 0 \in Attempts
  BY <1>1 DEF Definition, Attempts, BoundsAssumption
<1>3. x \in ExecutionRow
  BY <1>2 DEF ExecutionRow, ExecutionStatus
<1>4. executions' = [executions EXCEPT ![e] = x]
  BY DEF StartWorkflow
<1>5. PICK t \in ClockReadings :
        steps' = [steps EXCEPT ![e][<<definitions[w].start, 0>>] =
                    NewStep(input, t, None)]
  BY DEF StartWorkflow
<1>6. /\ NewStep(input, t, None) \in StepRow
      /\ NewStep(input, t, None).status = "Pending"
  BY ClockType, NewStepRow
<1>7. executions'[e] = x /\ executions[e] = None
  BY <1>4 DEF TypeOK, StartWorkflow
<1>8. steps'[e] = [steps[e] EXCEPT ![<<definitions[w].start, 0>>] =
                     NewStep(input, t, None)]
  BY <1>5 DEF TypeOK
<1>9. Begun(e)
  <2>1. /\ executions'[e] \in ExecutionRow
        /\ executions'[e].status = "Running"
        /\ executions'[e].currentStepAttempt = 0
        /\ executions'[e].workflow = w
        /\ executions'[e].currentStepName = definitions[w].start
        /\ definitions[w] # None
    BY <1>3, <1>7 DEF StartWorkflow
  <2>2. steps'[e] = [steps[e] EXCEPT ![<<executions'[e].currentStepName, 0>>] =
                       NewStep(input, t, None)]
    BY <1>8, <2>1
  <2> QED BY <1>6, <1>7, <2>1, <2>2 DEF Begun
<1>10. \A f \in Executions \ {e} : Same(f)
  BY <1>4, <1>5 DEF TypeOK, Same
<1> QED BY <1>9, <1>10 DEF OneMoves

\* A poll claims current or stale rows of any executions and does no more.
LEMMA PollMoves ==
  ASSUME TypeOK, NEW w \in Workflows, NEW worker \in Workers,
         NEW maxResults, PollAndClaimWorkflowSteps(w, worker, maxResults)
  PROVE  \A e \in Executions : Same(e) \/ Held(e)
<1>1. PICK t \in ClockReadings :
        \E batch \in SUBSET Claimable(w, t) :
        /\ \A p \in batch :
             t + DefinitionOf(p[1]).steps[p[2][1]].lease \in Time
        /\ steps' = [e \in Executions |-> [k \in Slots |->
             IF <<e, k>> \in batch
             THEN Claimed(steps[e][k], worker,
                          t + DefinitionOf(e).steps[k[1]].lease)
             ELSE steps[e][k]]]
        /\ UNCHANGED executions
  BY DEF PollAndClaimWorkflowSteps
<1>2. PICK batch \in SUBSET Claimable(w, t) :
        /\ \A p \in batch :
             t + DefinitionOf(p[1]).steps[p[2][1]].lease \in Time
        /\ steps' = [e \in Executions |-> [k \in Slots |->
             IF <<e, k>> \in batch
             THEN Claimed(steps[e][k], worker,
                          t + DefinitionOf(e).steps[k[1]].lease)
             ELSE steps[e][k]]]
        /\ UNCHANGED executions
  BY <1>1
<1> SUFFICES ASSUME NEW e \in Executions PROVE Same(e) \/ Held(e)
  OBVIOUS
<1> DEFINE claim(k) == Claimed(steps[e][k], worker,
                               t + DefinitionOf(e).steps[k[1]].lease)
<1>3. steps'[e] = [k \in Slots |-> IF <<e, k>> \in batch THEN claim(k)
                                                      ELSE steps[e][k]]
  BY <1>2
<1>4. ASSUME NEW k \in Slots, <<e, k>> \in batch
      PROVE  /\ executions[e] # None
             /\ Active(e, k)
             /\ claim(k) \in StepRow
             /\ claim(k).status = "Running"
             /\ claim(k).workerId \in Workers
             /\ claim(k).input = steps[e][k].input
  <2>1. /\ executions[e] # None
        /\ steps[e][k] # None
        /\ steps[e][k].status \in {"Pending", "Running"}
    BY <1>4 DEF Claimable, IsClaimable
  <2>2. steps[e][k] \in StepRow
    BY <2>1 DEF TypeOK
  <2>3. t + DefinitionOf(e).steps[k[1]].lease \in Time
    BY <1>2, <1>4
  <2> QED BY <2>1, <2>2, <2>3, ClaimedRow DEF Active, Has
<1>5. CASE \E k \in Slots : <<e, k>> \in batch
  <2>1. executions[e] # None /\ executions'[e] = executions[e]
    BY <1>2, <1>4, <1>5
  <2>2. steps'[e] \in StepRows
    BY <1>3, <1>4 DEF TypeOK, StepRows
  <2>3. ASSUME NEW k \in Slots
        PROVE  \/ steps'[e][k] = steps[e][k]
               \/ /\ Active(e, k)
                  /\ steps'[e][k] \in StepRow
                  /\ steps'[e][k].status = "Running"
                  /\ steps'[e][k].workerId \in Workers
                  /\ steps'[e][k].input = steps[e][k].input
    <3>1. CASE <<e, k>> \in batch
      <4>1. steps'[e][k] = claim(k)
        BY <1>3, <3>1
      <4> QED BY <4>1, <1>4, <3>1
    <3>2. CASE <<e, k>> \notin batch
      BY <1>3, <3>2
    <3> QED BY <3>1, <3>2
  <2> QED BY <2>1, <2>2, <2>3 DEF Held
<1>6. CASE ~ \E k \in Slots : <<e, k>> \in batch
  <2>1. steps'[e] = [k \in Slots |-> steps[e][k]]
    BY <1>3, <1>6
  <2>2. steps'[e] = steps[e]
    BY <2>1 DEF TypeOK
  <2> QED BY <1>2, <2>2 DEF Same
<1> QED BY <1>5, <1>6

\* keepAliveStep renews a claim of one execution.
LEMMA KeepAliveMoves ==
  ASSUME TypeOK, NEW e \in Executions, NEW s \in StepNames,
         NEW w \in Workers, KeepAliveStep(e, s, w)
  PROVE  OneMoves(e)
<1>1. PICK t \in ClockReadings, u \in ClockReadings :
        /\ MayReport(e, s, w, t)
        /\ u + DefinitionOf(e).steps[s].lease \in Time
        /\ steps' = [steps EXCEPT ![e][CurrentSlot(e)].leaseExpiresAt =
                       u + DefinitionOf(e).steps[s].lease]
        /\ UNCHANGED executions
  BY DEF KeepAliveStep
<1> DEFINE c == CurrentSlot(e)
           expiry == u + DefinitionOf(e).steps[s].lease
           row == [steps[e][c] EXCEPT !.leaseExpiresAt = expiry]
<1>2. /\ Reportable(e)
      /\ executions[e] # None
      /\ steps[e][c] \in StepRow
      /\ steps[e][c].workerId = w
      /\ c \in Slots
  BY <1>1, ReportFacts, CurrentSlotType
<1>3. steps' = [steps EXCEPT ![e] = [steps[e] EXCEPT ![c] = row]]
  BY <1>1
<1>4. /\ row \in StepRow
      /\ row.status = steps[e][c].status
      /\ row.workerId = w
      /\ row.input = steps[e][c].input
  BY <1>1, <1>2 DEF StepRow
<1>5. /\ Active(e, c)
      /\ row.status = "Running"
  BY <1>2, <1>4 DEF Active, Has, Reportable
<1>6. steps'[e] = [steps[e] EXCEPT ![c] = row]
  BY <1>3 DEF TypeOK
<1>7. steps[e] \in StepRows
  BY DEF TypeOK, StepRows
<1>8. Held(e)
  BY <1>1, <1>2, <1>4, <1>5, <1>6, <1>7 DEF Held, StepRows
<1>9. \A f \in Executions \ {e} : Same(f)
  BY <1>1, <1>3 DEF TypeOK, Same
<1> QED BY <1>8, <1>9 DEF OneMoves

\* completeStep finishes one execution when the workflow is complete.
LEMMA CompleteWorkflowMoves ==
  ASSUME TypeOK, NEW e \in Executions, NEW s \in StepNames,
         NEW w \in Workers, CompleteWorkflow(e, s, w)
  PROVE  OneMoves(e)
<1>1. PICK t \in ClockReadings :
        /\ MayReport(e, s, w, t)
        /\ executions' = [executions EXCEPT ![e].status = "Completed"]
        /\ steps' = [steps EXCEPT ![e] = Released(e, "Completed")]
  BY DEF CompleteWorkflow
<1>2. Reportable(e) /\ executions[e] # None
  BY <1>1, ReportFacts
<1>3. executions[e] \in ExecutionRow
  BY <1>2, CurrentSlotType
<1>4. executions'[e] = [executions[e] EXCEPT !.status = "Completed"]
  BY <1>1 DEF TypeOK
<1>5. Keeps(e, "Completed")
  BY <1>3, <1>4 DEF Keeps, ExecutionRow, ExecutionStatus
<1>6. steps'[e] = Released(e, "Completed")
  BY <1>1 DEF TypeOK
<1>7. \A f \in Executions \ {e} : Same(f)
  BY <1>1 DEF TypeOK, Same
<1> QED BY <1>2, <1>5, <1>6, <1>7 DEF OneMoves, Finished

\* completeStep hands one execution on to its next step otherwise.
LEMMA CompleteStepMoves ==
  ASSUME TypeOK, BoundsAssumption, NEW e \in Executions, NEW s \in StepNames,
         NEW w \in Workers, NEW next \in StepNames, NEW input \in Inputs,
         NEW delay \in Delays \cup {None},
         CompleteStep(e, s, w, next, input, delay)
  PROVE  OneMoves(e)
<1>1. PICK t \in ClockReadings :
        \E u \in ClockReadings :
          /\ MayReport(e, s, w, t)
          /\ StepDefined(e, next)
          /\ delay # None => u + delay \in Time
          /\ executions' = [executions EXCEPT ![e].currentStepName = next,
                                              ![e].currentStepAttempt = 0]
          /\ steps' = [steps EXCEPT ![e] =
               [Released(e, "Completed") EXCEPT ![<<next, 0>>] =
                  NewStep(input, u, IF delay = None THEN None ELSE u + delay)]]
  BY DEF CompleteStep
<1>2. PICK u \in ClockReadings :
        /\ MayReport(e, s, w, t)
        /\ StepDefined(e, next)
        /\ delay # None => u + delay \in Time
        /\ executions' = [executions EXCEPT ![e].currentStepName = next,
                                            ![e].currentStepAttempt = 0]
        /\ steps' = [steps EXCEPT ![e] =
             [Released(e, "Completed") EXCEPT ![<<next, 0>>] =
                NewStep(input, u, IF delay = None THEN None ELSE u + delay)]]
  BY <1>1
<1> DEFINE at == IF delay = None THEN None ELSE u + delay
           x == executions[e]
<1>3. Reportable(e) /\ x # None /\ DefinitionOf(e) # None
  BY <1>2, ReportFacts
<1>4. x \in ExecutionRow /\ x.status = "Running"
  BY <1>3, CurrentSlotType DEF Reportable, IsRunning
<1>5. executions'[e] = [x EXCEPT !.currentStepName = next,
                                 !.currentStepAttempt = 0]
  BY <1>2 DEF TypeOK
<1>6. /\ executions'[e] \in ExecutionRow
      /\ executions'[e].status = "Running"
      /\ executions'[e].workflow = x.workflow
      /\ executions'[e].currentStepName = next
      /\ executions'[e].currentStepAttempt = 0
  <2>1. 0 \in Attempts
    BY DEF Attempts, BoundsAssumption
  <2> QED BY <1>4, <1>5, <2>1 DEF ExecutionRow
<1>7. at \in Time \cup {None}
  BY <1>2
<1>8. NewStep(input, u, at) \in StepRow /\ NewStep(input, u, at).status = "Pending"
  BY <1>7, ClockType, NewStepRow
<1>9. steps'[e] = [Released(e, "Completed") EXCEPT
                     ![<<executions'[e].currentStepName, 0>>] =
                       NewStep(input, u, at)]
  BY <1>2, <1>6 DEF TypeOK
<1>10. \A f \in Executions \ {e} : Same(f)
  BY <1>2 DEF TypeOK, Same
<1>11. Advanced(e)
  BY <1>2, <1>3, <1>6, <1>8, <1>9 DEF Advanced
<1> QED BY <1>10, <1>11 DEF OneMoves

\* failStep fails the current attempt of one execution.
LEMMA FailStepMoves ==
  ASSUME TypeOK, NEW e \in Executions, NEW s \in StepNames,
         NEW w \in Workers, FailStep(e, s, w)
  PROVE  OneMoves(e)
<1>1. PICK t \in ClockReadings, u \in ClockReadings :
        /\ MayReport(e, s, w, t)
        /\ StepDefined(e, s)
        /\ executions' = [executions EXCEPT ![e] = ExecutionAfterFailure(e)]
        /\ steps' = [steps EXCEPT ![e] = StepsAfterFailure(e, u)]
  BY DEF FailStep
<1>2. /\ Reportable(e)
      /\ DefinitionOf(e) # None
      /\ executions[e].currentStepName = s
  BY <1>1, ReportFacts
<1>3. /\ executions'[e] = ExecutionAfterFailure(e)
      /\ steps'[e] = StepsAfterFailure(e, u)
  BY <1>1 DEF TypeOK
<1>4. \A f \in Executions \ {e} : Same(f)
  BY <1>1 DEF TypeOK, Same
<1>5. Failed(e)
  BY <1>1, <1>2, <1>3, ClockType DEF Failed
<1> QED BY <1>4, <1>5 DEF OneMoves

\* cancelWorkflow cancels one execution.
LEMMA CancelMoves ==
  ASSUME TypeOK, NEW e \in Executions, CancelWorkflow(e)
  PROVE  OneMoves(e)
<1>1. executions[e] \in ExecutionRow
  BY CurrentSlotType DEF CancelWorkflow, IsRunning
<1>2. /\ executions'[e] = [executions[e] EXCEPT !.status = "Canceled"]
      /\ steps'[e] = CanceledSteps(e)
  BY DEF CancelWorkflow, TypeOK
<1>3. Keeps(e, "Canceled")
  BY <1>1, <1>2 DEF Keeps, ExecutionRow, ExecutionStatus
<1>4. \A f \in Executions \ {e} : Same(f)
  BY DEF CancelWorkflow, TypeOK, Same
<1> QED BY <1>2, <1>3, <1>4 DEF OneMoves, Canceled, CancelWorkflow

\* A sweep fails the current attempts of any executions and does no more.
LEMMA SweepMoves ==
  ASSUME TypeOK, SweepExpiredLeases
  PROVE  \A e \in Executions : Same(e) \/ Failed(e)
<1>1. PICK t \in ClockReadings :
        /\ \A e \in Due(t) : StepDefined(e, executions[e].currentStepName)
        /\ executions' = [e \in Executions |->
             IF e \in Due(t) THEN ExecutionAfterFailure(e) ELSE executions[e]]
        /\ \E u \in [Due(t) -> ClockReadings] :
             steps' = [e \in Executions |->
               IF e \in Due(t) THEN StepsAfterFailure(e, u[e]) ELSE steps[e]]
  BY DEF SweepExpiredLeases
<1>2. PICK u \in [Due(t) -> ClockReadings] :
        steps' = [e \in Executions |->
          IF e \in Due(t) THEN StepsAfterFailure(e, u[e]) ELSE steps[e]]
  BY <1>1
<1> SUFFICES ASSUME NEW e \in Executions PROVE Same(e) \/ Failed(e)
  OBVIOUS
<1>3. CASE e \in Due(t)
  <2>1. Reportable(e) /\ DefinitionOf(e) # None
    BY <1>3 DEF Due, Reportable
  <2>2. /\ executions'[e] = ExecutionAfterFailure(e)
        /\ steps'[e] = StepsAfterFailure(e, u[e])
        /\ u[e] \in ClockReadings
        /\ StepDefined(e, executions[e].currentStepName)
    BY <1>1, <1>2, <1>3
  <2> QED BY <2>1, <2>2, ClockType DEF Failed
<1>4. CASE e \notin Due(t)
  BY <1>1, <1>2, <1>4 DEF Same
<1> QED BY <1>3, <1>4

\* Every step of the specification is one of these moves.
LEMMA NextMoves ==
  ASSUME TypeOK, BoundsAssumption, [Next]_vars
  PROVE  Moves
<1>1. CASE Register
  BY <1>1 DEF Register, RegisterWorkflowDefinition, Moves, Same
<1>2. CASE Start
  BY <1>2, StartMoves DEF Start, Moves
<1>3. CASE Poll
  BY <1>3, PollMoves DEF Poll, Moves
<1>4. ASSUME NEW e \in Executions, NEW w \in Workers, Report(e, w)
      PROVE  Moves
  <2>1. OneMoves(e)
    BY <1>4, KeepAliveMoves, CompleteWorkflowMoves, CompleteStepMoves,
       FailStepMoves DEF Report
  <2> QED BY <2>1 DEF Moves
<1>5. ASSUME NEW e \in Executions, CancelWorkflow(e) PROVE Moves
  BY <1>5, CancelMoves DEF Moves
<1>6. CASE SweepExpiredLeases
  BY <1>6, SweepMoves DEF Moves
<1>7. CASE Tick
  BY <1>7 DEF Tick, Moves, Same
<1>8. CASE UNCHANGED vars
  BY <1>8 DEF vars, Moves, Same
<1> QED BY <1>1, <1>2, <1>3, <1>4, <1>5, <1>6, <1>7, <1>8 DEF Next

-----------------------------------------------------------------------------
(* Type correctness.                                                       *)

\* A step keeps both tables keyed by Executions.
LEMMA NextFunctions ==
  ASSUME TypeOK, [Next]_vars
  PROVE  /\ executions' = [e \in Executions |-> executions'[e]]
         /\ steps' = [e \in Executions |-> steps'[e]]
<1>1. CASE Register
  BY <1>1 DEF Register, RegisterWorkflowDefinition, TypeOK
<1>2. CASE Start
  BY <1>2 DEF Start, StartWorkflow, TypeOK
<1>3. CASE Poll
  BY <1>3 DEF Poll, PollAndClaimWorkflowSteps, TypeOK
<1>4. ASSUME NEW e \in Executions, NEW w \in Workers, Report(e, w)
      PROVE  /\ executions' = [f \in Executions |-> executions'[f]]
             /\ steps' = [f \in Executions |-> steps'[f]]
  BY <1>4 DEF Report, KeepAliveStep, CompleteWorkflow, CompleteStep, FailStep,
              TypeOK
<1>5. CASE \E e \in Executions : CancelWorkflow(e)
  BY <1>5 DEF CancelWorkflow, TypeOK
<1>6. CASE SweepExpiredLeases
  BY <1>6 DEF SweepExpiredLeases
<1>7. CASE Tick
  BY <1>7 DEF Tick, TypeOK
<1>8. CASE UNCHANGED vars
  BY <1>8 DEF vars, TypeOK
<1> QED BY <1>1, <1>2, <1>3, <1>4, <1>5, <1>6, <1>7, <1>8 DEF Next

\* Every move leaves a well-typed execution row and well-typed step rows.
LEMMA MoveTypes ==
  ASSUME TypeOK, BoundsAssumption, NoneAssumption, NEW e \in Executions,
         Same(e) \/ Begun(e) \/ Held(e) \/ Finished(e) \/ Advanced(e)
           \/ Failed(e) \/ Canceled(e)
  PROVE  /\ executions'[e] \in ExecutionRow \cup {None}
         /\ steps'[e] \in StepRows
<1>1. executions[e] \in ExecutionRow \cup {None} /\ steps[e] \in StepRows
  BY DEF TypeOK, StepRows
<1>2. 0 \in Attempts
  BY DEF Attempts, BoundsAssumption
<1>3. ASSUME Reportable(e)
      PROVE  /\ executions[e] # None
             /\ steps[e][CurrentSlot(e)] # None
             /\ \A status \in StepStatus : Released(e, status) \in StepRows
  BY <1>3, ReleasedFacts DEF Reportable, IsRunning, Has
<1>4. CASE Same(e)
  BY <1>1, <1>4 DEF Same
<1>5. CASE Begun(e)
  <2>1. <<executions'[e].currentStepName, 0>> \in Slots
    BY <1>2, <1>5 DEF Begun, ExecutionRow, Slots
  <2> QED BY <1>1, <1>5, <2>1 DEF Begun, StepRows
<1>6. CASE Held(e)
  BY <1>1, <1>6 DEF Held
<1>7. CASE Finished(e)
  BY <1>3, <1>7 DEF Finished, Keeps, StepStatus
<1>8. CASE Advanced(e)
  <2>1. Released(e, "Completed") \in StepRows
    BY <1>3, <1>8 DEF Advanced, StepStatus
  <2>2. <<executions'[e].currentStepName, 0>> \in Slots
    BY <1>2, <1>8 DEF Advanced, ExecutionRow, Slots
  <2> QED BY <1>8, <2>1, <2>2 DEF Advanced, StepRows
<1>9. CASE Failed(e)
  <2>1. PICK t \in Time : steps'[e] = StepsAfterFailure(e, t)
    BY <1>9 DEF Failed
  <2>2. /\ ExecutionAfterFailure(e) \in ExecutionRow
        /\ StepsAfterFailure(e, t) \in StepRows
    BY <1>3, <1>9, FailureFacts DEF Failed
  <2> QED BY <1>9, <2>1, <2>2 DEF Failed
<1>10. CASE Canceled(e)
  <2>1. ASSUME NEW k \in Slots
        PROVE  CanceledSteps(e)[k] \in StepRow \cup {None}
    <3>1. CASE Active(e, k)
      <4>1. steps[e][k] \in StepRow
        BY <1>1, <3>1 DEF StepRows, Active, Has
      <4> QED BY <3>1, <4>1, CanceledRowFacts DEF CanceledSteps
    <3>2. CASE ~Active(e, k)
      BY <1>1, <3>2 DEF CanceledSteps, StepRows
    <3> QED BY <3>1, <3>2
  <2>2. CanceledSteps(e) \in StepRows
    BY <2>1 DEF CanceledSteps, StepRows
  <2> QED BY <1>10, <2>2 DEF Canceled, Keeps
<1> QED BY <1>4, <1>5, <1>6, <1>7, <1>8, <1>9, <1>10

\* In a step every execution makes one of the seven moves.
LEMMA EveryMoves ==
  ASSUME TypeOK, BoundsAssumption, [Next]_vars, NEW e \in Executions
  PROVE  Same(e) \/ Begun(e) \/ Held(e) \/ Finished(e) \/ Advanced(e)
           \/ Failed(e) \/ Canceled(e)
BY NextMoves DEF Moves, OneMoves

\* The remaining tables and the clock.
LEMMA OtherTypes ==
  ASSUME TypeOK, BoundsAssumption, DefinitionsAssumption, [Next]_vars
  PROVE  /\ definitions' \in [Workflows -> Definition \cup {None}]
         /\ singletonLocks' \in [Workflows -> Executions \cup {None}]
         /\ now' \in Time
<1>1. CASE Register
  BY <1>1 DEF Register, RegisterWorkflowDefinition, TypeOK,
              DefinitionsAssumption
<1>2. CASE Start
  BY <1>2 DEF Start, StartWorkflow, TypeOK
<1>3. CASE Poll
  BY <1>3 DEF Poll, PollAndClaimWorkflowSteps, TypeOK
<1>4. ASSUME NEW e \in Executions, NEW w \in Workers, Report(e, w)
      PROVE  UNCHANGED <<definitions, singletonLocks, now>>
  BY <1>4 DEF Report, KeepAliveStep, CompleteWorkflow, CompleteStep, FailStep
<1>5. CASE \E e \in Executions : CancelWorkflow(e)
  BY <1>5 DEF CancelWorkflow, TypeOK
<1>6. CASE SweepExpiredLeases
  BY <1>6 DEF SweepExpiredLeases, TypeOK
<1>7. CASE Tick
  BY <1>7 DEF Tick, TypeOK, Time, BoundsAssumption
<1>8. CASE UNCHANGED vars
  BY <1>8 DEF vars, TypeOK
<1> QED BY <1>1, <1>2, <1>3, <1>4, <1>5, <1>6, <1>7, <1>8 DEF Next, TypeOK

LEMMA TypeStep ==
  ASSUME TypeOK, [Next]_vars PROVE TypeOK'
<1>1. \A e \in Executions : /\ executions'[e] \in ExecutionRow \cup {None}
                            /\ steps'[e] \in StepRows
  BY EveryMoves, MoveTypes, BoundsAssumption, NoneAssumption
<1>2. /\ executions' \in [Executions -> ExecutionRow \cup {None}]
      /\ steps' \in [Executions -> StepRows]
  BY <1>1, NextFunctions
<1> QED BY <1>2, OtherTypes, BoundsAssumption, DefinitionsAssumption
        DEF TypeOK, StepRows

\* The four tables keep their types under every operation, for any number of
\* executions, workers, definitions and retries.
THEOREM TypeCorrect == Spec => []TypeOK
<1>1. Init => TypeOK
  BY BoundsAssumption DEF Init, TypeOK, Time
<1> QED BY <1>1, TypeStep, PTL DEF Spec

-----------------------------------------------------------------------------
(* The execution and step tables agree.  OneActiveStep says nothing of an  *)
(* execution that has not started, so the inductive invariant adds that it *)
(* has no rows.                                                            *)

Agrees(e) ==
  /\ executions[e] = None => \A k \in Slots : steps[e][k] = None
  /\ executions[e] # None =>
       /\ Has(e, CurrentSlot(e), CurrentStatus(executions[e].status))
       /\ \A k \in Slots \ {CurrentSlot(e)} : ~Active(e, k)

TablesAgree == \A e \in Executions : Agrees(e)

\* Releasing the current attempt leaves no active row.
LEMMA ReleasedInactive ==
  ASSUME TypeOK, NEW e \in Executions, Agrees(e), Reportable(e),
         NEW status \in {"Completed", "Failed"}
  PROVE  /\ Released(e, status) \in StepRows
         /\ Released(e, status)[CurrentSlot(e)] # None
         /\ Released(e, status)[CurrentSlot(e)].status = status
         /\ \A k \in Slots :
              ~(Released(e, status)[k] # None
                  /\ Released(e, status)[k].status \in {"Pending", "Running"})
<1>1. executions[e] # None /\ steps[e][CurrentSlot(e)] # None
  BY DEF Reportable, IsRunning, Has
<1>2. status \in StepStatus
  BY DEF StepStatus
<1>3. /\ Released(e, status) \in StepRows
      /\ Released(e, status)[CurrentSlot(e)] # None
      /\ Released(e, status)[CurrentSlot(e)].status = status
      /\ \A k \in Slots \ {CurrentSlot(e)} :
           Released(e, status)[k] = steps[e][k]
  BY <1>1, <1>2, ReleasedFacts
<1>4. \A k \in Slots \ {CurrentSlot(e)} :
        ~(steps[e][k] # None /\ steps[e][k].status \in {"Pending", "Running"})
  BY <1>1 DEF Agrees, Active, Has
<1> QED BY <1>3, <1>4

\* A fresh pending row at the new current slot is the only active one.
LEMMA FreshRowAgrees ==
  ASSUME NEW e \in Executions, NEW rows \in StepRows, NEW row \in StepRow,
         NoneAssumption,
         \A k \in Slots :
           ~(rows[k] # None /\ rows[k].status \in {"Pending", "Running"}),
         row.status = "Pending", executions'[e] \in ExecutionRow,
         executions'[e].status = "Running",
         steps'[e] = [rows EXCEPT ![CurrentSlot(e)'] = row]
  PROVE  Agrees(e)'
<1>1. executions'[e] # None /\ row # None
  BY NoneAssumption
<1>2. CurrentSlot(e)' \in Slots
  BY DEF CurrentSlot, ExecutionRow, Slots
<1>3. steps'[e][CurrentSlot(e)'] = row
  BY <1>2 DEF StepRows
<1>4. \A k \in Slots \ {CurrentSlot(e)'} : steps'[e][k] = rows[k]
  BY DEF StepRows
<1>5. Has(e, CurrentSlot(e), CurrentStatus(executions[e].status))'
  BY <1>1, <1>3 DEF Has, CurrentStatus
<1>6. \A k \in Slots \ {CurrentSlot(e)'} : ~Active(e, k)'
  BY <1>4 DEF Active, Has
<1> QED BY <1>1, <1>5, <1>6 DEF Agrees

\* Every move of an execution keeps its two tables in agreement.
LEMMA MoveAgrees ==
  ASSUME TypeOK, BoundsAssumption, NoneAssumption, NEW e \in Executions,
         Agrees(e),
         Same(e) \/ Begun(e) \/ Held(e) \/ Finished(e) \/ Advanced(e)
           \/ Failed(e) \/ Canceled(e)
  PROVE  Agrees(e)'
<1>1. CASE Same(e)
  BY <1>1 DEF Same, Agrees, Has, Active, CurrentSlot, CurrentStatus
<1>2. CASE Begun(e)
  <2>1. PICK row \in StepRow :
          /\ row.status = "Pending"
          /\ steps'[e] =
               [steps[e] EXCEPT ![<<executions'[e].currentStepName, 0>>] = row]
    BY <1>2 DEF Begun
  <2>2. CurrentSlot(e)' = <<executions'[e].currentStepName, 0>>
    BY <1>2 DEF Begun, CurrentSlot
  <2>3. \A k \in Slots : steps[e][k] = None
    BY <1>2 DEF Agrees, Begun
  <2>4. steps[e] \in StepRows
    BY DEF TypeOK, StepRows
  <2> QED BY <1>2, <2>1, <2>2, <2>3, <2>4, FreshRowAgrees DEF Begun
<1>3. CASE Held(e)
  <2>1. CurrentSlot(e)' = CurrentSlot(e) /\ CurrentSlot(e) \in Slots
    BY <1>3, CurrentSlotType DEF Held, CurrentSlot
  <2>2. ASSUME NEW k \in Slots, Active(e, k)'
        PROVE  Active(e, k)
    BY <1>3, <2>2 DEF Held, Active, Has
  <2>3. Has(e, CurrentSlot(e), CurrentStatus(executions[e].status))'
    <3>1. CASE steps'[e][CurrentSlot(e)] = steps[e][CurrentSlot(e)]
      BY <1>3, <2>1, <3>1 DEF Held, Agrees, Has, CurrentStatus
    <3>2. CASE /\ Active(e, CurrentSlot(e))
               /\ steps'[e][CurrentSlot(e)] \in StepRow
               /\ steps'[e][CurrentSlot(e)].status = "Running"
      <4>1. executions[e].status = "Running"
        <5>1. executions[e].status \in ExecutionStatus
          BY <1>3, CurrentSlotType DEF Held, ExecutionRow
        <5> QED BY <1>3, <3>2, <5>1
                DEF Held, Agrees, Has, Active, CurrentStatus, ExecutionStatus
      <4> QED BY <1>3, <2>1, <3>2, <4>1, NoneAssumption
              DEF Held, Has, CurrentStatus
    <3> QED BY <1>3, <2>1, <3>1, <3>2 DEF Held
  <2>4. \A k \in Slots \ {CurrentSlot(e)'} : ~Active(e, k)'
    BY <1>3, <2>1, <2>2 DEF Held, Agrees
  <2> QED BY <1>3, <2>3, <2>4 DEF Held, Agrees
<1>4. CASE Finished(e)
  <2>1. CurrentSlot(e)' = CurrentSlot(e)
    BY <1>4 DEF Finished, Keeps, CurrentSlot
  <2>2. executions'[e] # None
    BY <1>4, NoneAssumption DEF Finished, Keeps
  <2> QED BY <1>4, <2>1, <2>2, ReleasedInactive
          DEF Finished, Keeps, Agrees, Has, Active, CurrentStatus
<1>5. CASE Advanced(e)
  <2>1. CurrentSlot(e)' = <<executions'[e].currentStepName, 0>>
    BY <1>5 DEF Advanced, CurrentSlot
  <2> QED BY <1>5, <2>1, ReleasedInactive, FreshRowAgrees DEF Advanced
<1>6. CASE Failed(e)
  <2>1. PICK t \in Time : steps'[e] = StepsAfterFailure(e, t)
    BY <1>6 DEF Failed
  <2>2. /\ executions[e] # None
        /\ executions[e].status = "Running"
        /\ steps[e][CurrentSlot(e)] # None
        /\ DefinitionOf(e) # None
        /\ StepDefined(e, executions[e].currentStepName)
        /\ executions'[e] = ExecutionAfterFailure(e)
    BY <1>6 DEF Failed, Reportable, IsRunning, Has
  <2>3. /\ executions'[e] \in ExecutionRow
        /\ executions'[e] # None
    BY <2>2, FailureFacts, NoneAssumption
  <2>4. CASE Retries(e)
    <3> DEFINE row == NewStep(steps[e][CurrentSlot(e)].input, t, None)
    <3>1. CurrentSlot(e)' = <<executions[e].currentStepName,
                              executions[e].currentStepAttempt + 1>>
      BY <2>2, <2>4, FailureFacts DEF CurrentSlot
    <3>2. steps'[e] = [Released(e, "Failed") EXCEPT ![CurrentSlot(e)'] = row]
      BY <2>1, <2>2, <2>4, <3>1, FailureFacts
    <3>3. executions'[e].status = "Running"
      BY <2>2, <2>4, FailureFacts
    <3>4. row \in StepRow /\ row.status = "Pending"
      <4>1. CurrentSlot(e) \in Slots
        BY <2>2, CurrentSlotType
      <4>2. steps[e][CurrentSlot(e)].input \in Inputs
        BY <2>2, <4>1 DEF TypeOK, StepRow
      <4> QED BY <4>2, NewStepRow
    <3> QED BY <1>6, <2>3, <3>2, <3>3, <3>4, ReleasedInactive, FreshRowAgrees
            DEF Failed
  <2>5. CASE ~Retries(e)
    <3>1. CurrentSlot(e)' = CurrentSlot(e)
      BY <2>2, <2>5, FailureFacts DEF CurrentSlot
    <3>2. steps'[e] = Released(e, "Failed") /\ executions'[e].status = "Failed"
      BY <2>1, <2>2, <2>5, FailureFacts
    <3> QED BY <1>6, <2>3, <3>1, <3>2, ReleasedInactive
            DEF Failed, Agrees, Has, Active, CurrentStatus
  <2> QED BY <2>4, <2>5
<1>7. CASE Canceled(e)
  <2>1. CurrentSlot(e)' = CurrentSlot(e) /\ CurrentSlot(e) \in Slots
    BY <1>7, CurrentSlotType DEF Canceled, Keeps, CurrentSlot, IsRunning
  <2>2. executions'[e] # None /\ executions'[e].status = "Canceled"
    BY <1>7, NoneAssumption DEF Canceled, Keeps
  <2>3. Active(e, CurrentSlot(e))
    BY <1>7 DEF Canceled, IsRunning, Agrees, Has, Active, CurrentStatus
  <2>4. ASSUME NEW k \in Slots, Active(e, k)
        PROVE  /\ steps'[e][k] # None
               /\ steps'[e][k].status = "Canceled"
    <3>1. steps[e][k] \in StepRow
      BY <2>4 DEF TypeOK, Active, Has
    <3> QED BY <1>7, <2>4, <3>1, CanceledRowFacts DEF Canceled, CanceledSteps
  <2>5. ASSUME NEW k \in Slots, ~Active(e, k)
        PROVE  steps'[e][k] = steps[e][k]
    BY <1>7, <2>5 DEF Canceled, CanceledSteps
  <2>6. Has(e, CurrentSlot(e), CurrentStatus(executions[e].status))'
    BY <2>1, <2>2, <2>3, <2>4 DEF Has, CurrentStatus
  <2>7. \A k \in Slots : ~Active(e, k)'
    BY <2>4, <2>5 DEF Active, Has
  <2> QED BY <2>2, <2>6, <2>7 DEF Agrees
<1> QED BY <1>1, <1>2, <1>3, <1>4, <1>5, <1>6, <1>7

TablesInv == TypeOK /\ TablesAgree

\* The tables agree in every reachable state.
LEMMA TablesInvariant == Spec => []TablesInv
<1>1. Init => TablesAgree
  BY DEF Init, TablesAgree, Agrees
<1>2. TypeOK /\ TablesAgree /\ [Next]_vars => TablesAgree'
  <2> SUFFICES ASSUME TypeOK, TablesAgree, [Next]_vars,
                      NEW e \in Executions
               PROVE  Agrees(e)'
    BY DEF TablesAgree
  <2> QED BY EveryMoves, MoveAgrees, BoundsAssumption, NoneAssumption
          DEF TablesAgree
<1> QED BY <1>1, <1>2, TypeCorrect, PTL DEF Spec, TablesInv

\* In every reachable state each execution's current attempt has a row whose
\* status matches the execution's, and no other row of it is pending or
\* running: what pollAndClaimWorkflowSteps and sweepExpiredLeases rely on.
THEOREM ExecutionAndStepsAgree == Spec => []OneActiveStep
<1>1. TablesInv => OneActiveStep
  BY DEF TablesInv, TablesAgree, Agrees, OneActiveStep
<1> QED BY <1>1, TablesInvariant, PTL

-----------------------------------------------------------------------------
(* Ended executions are frozen, and a retry chain is never broken.         *)

\* The step that EndedExecutionsFrozen is about.
LEMMA EndedIsFrozen ==
  ASSUME TablesInv, [Next]_vars, NEW e \in Executions,
         executions[e] # None, ~IsRunning(e)
  PROVE  executions'[e] = executions[e] /\ steps'[e] = steps[e]
<1>1. Same(e) \/ Held(e)
  BY EveryMoves, BoundsAssumption
     DEF TablesInv, Begun, Finished, Advanced, Failed, Canceled, Reportable
<1>2. executions[e].status \in ExecutionStatus \ {"Running"}
  BY CurrentSlotType DEF TablesInv, IsRunning, ExecutionRow
<1>3. Agrees(e)
  BY DEF TablesInv, TablesAgree
<1>4. \A k \in Slots : ~Active(e, k)
  BY <1>2, <1>3 DEF Agrees, Has, Active, CurrentStatus, ExecutionStatus
<1>5. steps[e] \in StepRows
  BY DEF TablesInv, TypeOK, StepRows
<1>6. CASE Held(e)
  BY <1>4, <1>5, <1>6 DEF Held, StepRows
<1>7. CASE Same(e)
  BY <1>7 DEF Same
<1> QED BY <1>1, <1>6, <1>7

\* No poll, sweep, report or cancellation changes an execution that has ended,
\* or any of its rows.  A poll never checks the execution's status: that it
\* cannot reach an ended one follows from TablesAgree.
THEOREM EndedExecutionsFrozen == Spec => TerminalFrozen
<1>1. TablesInv /\ [Next]_vars =>
        [\A e \in Executions : executions[e] # None /\ ~IsRunning(e) =>
           executions'[e] = executions[e] /\ steps'[e] = steps[e]]_vars
  BY EndedIsFrozen
<1> QED BY <1>1, TablesInvariant, PTL DEF Spec, TerminalFrozen

Chain(e) ==
  executions[e] # None =>
    \A a \in 0..(executions[e].currentStepAttempt - 1) :
      /\ Has(e, <<executions[e].currentStepName, a>>, {"Failed"})
      /\ steps[e][<<executions[e].currentStepName, a>>].input
           = steps[e][CurrentSlot(e)].input

\* The earlier attempts of the current step are slots, and not the current one.
LEMMA EarlierSlots ==
  ASSUME TypeOK, BoundsAssumption, NEW e \in Executions, executions[e] # None,
         NEW a \in 0..(executions[e].currentStepAttempt - 1)
  PROVE  /\ executions[e].currentStepAttempt \in Nat
         /\ a \in Nat
         /\ <<executions[e].currentStepName, a>> \in Slots
         /\ <<executions[e].currentStepName, a>> # CurrentSlot(e)
<1> DEFINE n == executions[e].currentStepAttempt
<1>1. n \in 0..MaxAttempt /\ executions[e].currentStepName \in StepNames
  BY CurrentSlotType DEF Attempts
<1>2. n \in Nat /\ a \in 0..MaxAttempt /\ a # n
  BY <1>1 DEF BoundsAssumption
<1> QED BY <1>1, <1>2 DEF Slots, Attempts, BoundsAssumption, CurrentSlot

\* Every move of an execution keeps its chain of retries intact.
LEMMA MoveChains ==
  ASSUME TypeOK, BoundsAssumption, NoneAssumption, NEW e \in Executions,
         Agrees(e), Chain(e),
         Same(e) \/ Begun(e) \/ Held(e) \/ Finished(e) \/ Advanced(e)
           \/ Failed(e) \/ Canceled(e)
  PROVE  Chain(e)'
<1> DEFINE x == executions[e]
           k(a) == <<x.currentStepName, a>>
           c == CurrentSlot(e)
<1>1. CASE Same(e)
  BY <1>1 DEF Same, Chain, Has, CurrentSlot
<1>2. CASE Begun(e) \/ Advanced(e)
  BY <1>2 DEF Begun, Advanced, Chain
\* The moves that keep the current attempt: rows of failed attempts stay, and
\* so does the current input.
<1>3. ASSUME x # None, x.currentStepName = executions'[e].currentStepName,
             x.currentStepAttempt = executions'[e].currentStepAttempt,
             steps'[e][c].input = steps[e][c].input,
             \A a \in 0..(x.currentStepAttempt - 1) :
               steps'[e][k(a)] = steps[e][k(a)]
      PROVE  Chain(e)'
  BY <1>3 DEF Chain, Has, CurrentSlot
<1>4. ASSUME x # None, NEW a \in 0..(x.currentStepAttempt - 1)
      PROVE  k(a) \in Slots /\ k(a) # c /\ ~Active(e, k(a))
  BY <1>4, EarlierSlots DEF Agrees
<1>5. CASE Held(e)
  <2>1. x # None /\ executions'[e] = x /\ c \in Slots
    BY <1>5, CurrentSlotType DEF Held
  <2>2. steps'[e][c].input = steps[e][c].input
    BY <1>5, <2>1 DEF Held
  <2>3. \A a \in 0..(x.currentStepAttempt - 1) :
          steps'[e][k(a)] = steps[e][k(a)]
    BY <1>4, <1>5, <2>1 DEF Held
  <2> QED BY <1>3, <2>1, <2>2, <2>3
<1>6. CASE Finished(e)
  <2>1. x # None /\ steps[e][c] # None /\ "Completed" \in StepStatus
    BY <1>6 DEF Finished, Reportable, IsRunning, Has, StepStatus
  <2>2. /\ steps'[e][c].input = steps[e][c].input
        /\ \A s \in Slots \ {c} : steps'[e][s] = steps[e][s]
    BY <1>6, <2>1, ReleasedFacts DEF Finished
  <2>3. \A a \in 0..(x.currentStepAttempt - 1) :
          steps'[e][k(a)] = steps[e][k(a)]
    BY <1>4, <2>1, <2>2
  <2> QED BY <1>3, <1>6, <2>1, <2>2, <2>3 DEF Finished, Keeps
<1>7. CASE Failed(e)
  <2>1. PICK t \in Time : steps'[e] = StepsAfterFailure(e, t)
    BY <1>7 DEF Failed
  <2>2. /\ x # None
        /\ steps[e][c] # None
        /\ DefinitionOf(e) # None
        /\ StepDefined(e, x.currentStepName)
        /\ executions'[e] = ExecutionAfterFailure(e)
        /\ "Failed" \in StepStatus
    BY <1>7 DEF Failed, Reportable, IsRunning, Has, StepStatus
  <2>3. /\ Released(e, "Failed") \in StepRows
        /\ Released(e, "Failed")[c] # None
        /\ Released(e, "Failed")[c].status = "Failed"
        /\ Released(e, "Failed")[c].input = steps[e][c].input
        /\ \A s \in Slots \ {c} : Released(e, "Failed")[s] = steps[e][s]
    BY <2>2, ReleasedFacts
  <2>4. CASE ~Retries(e)
    <3>1. /\ steps'[e] = Released(e, "Failed")
          /\ executions'[e].currentStepName = x.currentStepName
          /\ executions'[e].currentStepAttempt = x.currentStepAttempt
      BY <2>1, <2>2, <2>4, FailureFacts
    <3>2. \A a \in 0..(x.currentStepAttempt - 1) :
            steps'[e][k(a)] = steps[e][k(a)]
      BY <1>4, <2>2, <2>3, <3>1
    <3> QED BY <1>3, <2>2, <2>3, <3>1, <3>2
  <2>5. CASE Retries(e)
    <3> DEFINE row == NewStep(steps[e][c].input, t, None)
               n == x.currentStepAttempt
    <3>1. /\ n + 1 \in Attempts
          /\ executions'[e].currentStepName = x.currentStepName
          /\ executions'[e].currentStepAttempt = n + 1
          /\ steps'[e] = [Released(e, "Failed") EXCEPT ![k(n + 1)] = row]
      BY <2>1, <2>2, <2>5, FailureFacts
    <3>2. /\ x.currentStepName \in StepNames
          /\ n \in Nat
          /\ c = k(n)
          /\ c \in Slots
          /\ k(n + 1) \in Slots
      BY <2>2, <3>1, CurrentSlotType
         DEF Slots, Attempts, BoundsAssumption, CurrentSlot
    <3>3. row.input = steps[e][c].input
      BY DEF NewStep
    <3>4. CurrentSlot(e)' = k(n + 1) /\ steps'[e][k(n + 1)] = row
      BY <2>3, <3>1, <3>2 DEF CurrentSlot, StepRows
    <3>5. ASSUME NEW a \in 0..n
          PROVE  /\ steps'[e][k(a)] # None
                 /\ steps'[e][k(a)].status = "Failed"
                 /\ steps'[e][k(a)].input = steps[e][c].input
      <4>1. k(a) \in Slots /\ k(a) # k(n + 1)
        BY <3>2 DEF Slots, Attempts, BoundsAssumption
      <4>2. steps'[e][k(a)] = Released(e, "Failed")[k(a)]
        BY <2>3, <3>1, <4>1 DEF StepRows
      <4>3. CASE a = n
        BY <2>3, <3>2, <4>2, <4>3
      <4>4. CASE a # n
        <5>1. a \in 0..(n - 1)
          BY <3>2, <4>4
        <5>2. /\ Has(e, k(a), {"Failed"})
              /\ steps[e][k(a)].input = steps[e][c].input
          BY <2>2, <5>1 DEF Chain
        <5>3. Released(e, "Failed")[k(a)] = steps[e][k(a)]
          BY <1>4, <2>2, <2>3, <5>1
        <5> QED BY <4>2, <5>2, <5>3 DEF Has
      <4> QED BY <4>3, <4>4
    <3>6. 0..(executions'[e].currentStepAttempt - 1) = 0..n
      BY <3>1, <3>2
    <3> QED BY <3>1, <3>3, <3>4, <3>5, <3>6 DEF Chain, Has
  <2> QED BY <2>4, <2>5
<1>8. CASE Canceled(e)
  <2>1. x # None /\ c \in Slots
    BY <1>8, CurrentSlotType DEF Canceled, IsRunning
  <2>2. steps'[e][c].input = steps[e][c].input
    <3>1. CASE Active(e, c)
      <4>1. steps[e][c] \in StepRow
        BY <2>1, <3>1 DEF TypeOK, Active, Has
      <4> QED BY <1>8, <2>1, <3>1, <4>1, CanceledRowFacts
              DEF Canceled, CanceledSteps
    <3>2. CASE ~Active(e, c)
      BY <1>8, <2>1, <3>2 DEF Canceled, CanceledSteps
    <3> QED BY <3>1, <3>2
  <2>3. \A a \in 0..(x.currentStepAttempt - 1) :
          steps'[e][k(a)] = steps[e][k(a)]
    BY <1>4, <1>8, <2>1 DEF Canceled, CanceledSteps
  <2> QED BY <1>3, <1>8, <2>1, <2>2, <2>3 DEF Canceled, Keeps
<1> QED BY <1>1, <1>2, <1>5, <1>6, <1>7, <1>8

\* Every attempt before the current one failed, on the input the current one
\* runs on, whatever mix of failStep, sweeps, claims, revisits of the step and
\* new registrations led there.
THEOREM RetriesKeepTheirInput == Spec => []RetryChain
<1> DEFINE Chains == \A e \in Executions : Chain(e)
<1>1. Init => Chains
  BY DEF Init, Chain
<1>2. TablesInv /\ Chains /\ [Next]_vars => Chains'
  <2> SUFFICES ASSUME TablesInv, Chains, [Next]_vars, NEW e \in Executions
               PROVE  Chain(e)'
    OBVIOUS
  <2> QED BY EveryMoves, MoveChains, BoundsAssumption, NoneAssumption
          DEF TablesInv, TablesAgree
<1>3. Chains => RetryChain
  BY DEF Chain, RetryChain
<1> HIDE DEF Chains
<1> QED BY <1>1, <1>2, <1>3, TablesInvariant, PTL DEF Spec

-----------------------------------------------------------------------------
(* Singletons.  The lock table is what makes SingletonExclusive inductive: *)
(* a running execution of a singleton workflow holds its workflow's lock.  *)

\* No workflow is registered again with the singleton flag changed.
StableSingletons ==
  \A w \in Workflows : \A c, d \in Definitions[w] : c.singleton = d.singleton

SingletonInv ==
  /\ \A w \in Workflows : definitions[w] \in Definitions[w] \cup {None}
  /\ \A e \in Executions : executions[e] # None => DefinitionOf(e) # None
  /\ \A e \in Executions :
       IsRunning(e) /\ DefinitionOf(e).singleton =>
         singletonLocks[executions[e].workflow] = e

\* Only startWorkflow creates an execution, and only it moves a lock.
LEMMA OnlyStartStarts ==
  ASSUME TypeOK, BoundsAssumption, NoneAssumption, [Next]_vars, ~Start
  PROVE  /\ singletonLocks' = singletonLocks
         /\ \A e \in Executions : executions[e] = None => executions'[e] = None
         /\ \A e \in Executions : executions[e] # None =>
              /\ executions'[e] # None
              /\ executions'[e].workflow = executions[e].workflow
              /\ IsRunning(e)' => IsRunning(e)
<1>1. /\ singletonLocks' = singletonLocks
      /\ \A e \in Executions : executions[e] = None => executions'[e] = None
  <2>1. CASE Register
    BY <2>1 DEF Register, RegisterWorkflowDefinition
  <2>2. CASE Poll
    BY <2>2 DEF Poll, PollAndClaimWorkflowSteps
  <2>3. ASSUME NEW e \in Executions, NEW w \in Workers, Report(e, w)
        PROVE  /\ singletonLocks' = singletonLocks
               /\ \A f \in Executions :
                    executions[f] = None => executions'[f] = None
    BY <2>3 DEF Report, KeepAliveStep, CompleteWorkflow, CompleteStep,
                FailStep, MayReport, IsRunning, TypeOK
  <2>4. CASE \E e \in Executions : CancelWorkflow(e)
    BY <2>4 DEF CancelWorkflow, IsRunning, TypeOK
  <2>5. CASE SweepExpiredLeases
    BY <2>5 DEF SweepExpiredLeases, Due, IsRunning
  <2>6. CASE Tick
    BY <2>6 DEF Tick
  <2>7. CASE UNCHANGED vars
    BY <2>7 DEF vars
  <2> QED BY <2>1, <2>2, <2>3, <2>4, <2>5, <2>6, <2>7 DEF Next
<1>2. ASSUME NEW e \in Executions, executions[e] # None
      PROVE  /\ executions'[e] # None
             /\ executions'[e].workflow = executions[e].workflow
             /\ IsRunning(e)' => IsRunning(e)
  <2>1. CASE Same(e) \/ Held(e)
    BY <1>2, <2>1 DEF Same, Held, IsRunning
  <2>2. CASE Finished(e) \/ Advanced(e) \/ Canceled(e)
    BY <2>2, NoneAssumption
       DEF Finished, Advanced, Canceled, Keeps, Reportable, IsRunning
  <2>3. CASE Failed(e)
    <3>1. /\ steps[e][CurrentSlot(e)] # None
          /\ DefinitionOf(e) # None
          /\ StepDefined(e, executions[e].currentStepName)
          /\ executions'[e] = ExecutionAfterFailure(e)
          /\ IsRunning(e)
          /\ \E t \in Time : TRUE
      BY <2>3 DEF Failed, Reportable, Has
    <3>2. /\ executions'[e] \in ExecutionRow
          /\ executions'[e].workflow = executions[e].workflow
      BY <1>2, <3>1, FailureFacts
    <3> QED BY <3>1, <3>2, NoneAssumption
  <2>4. ~Begun(e)
    BY <1>2 DEF Begun
  <2> QED BY <2>1, <2>2, <2>3, <2>4, EveryMoves
<1> QED BY <1>1, <1>2

\* No operation but registerWorkflowDefinition changes a definition.
LEMMA OnlyRegisterRegisters ==
  ASSUME [Next]_vars, ~Register PROVE definitions' = definitions
<1>1. CASE Start
  BY <1>1 DEF Start, StartWorkflow
<1>2. CASE Poll
  BY <1>2 DEF Poll, PollAndClaimWorkflowSteps
<1>3. ASSUME NEW e \in Executions, NEW w \in Workers, Report(e, w)
      PROVE  definitions' = definitions
  BY <1>3 DEF Report, KeepAliveStep, CompleteWorkflow, CompleteStep, FailStep
<1>4. CASE \E e \in Executions : CancelWorkflow(e)
  BY <1>4 DEF CancelWorkflow
<1>5. CASE SweepExpiredLeases
  BY <1>5 DEF SweepExpiredLeases
<1>6. CASE Tick \/ UNCHANGED vars
  BY <1>6 DEF Tick, vars
<1> QED BY <1>1, <1>2, <1>3, <1>4, <1>5, <1>6 DEF Next

\* startWorkflow leaves every singleton with one running execution at most,
\* and its lock pointing at that one.
LEMMA StartKeepsSingletons ==
  ASSUME TypeOK, SingletonInv, BoundsAssumption, NoneAssumption,
         NEW w \in Workflows, NEW e \in Executions, NEW input \in Inputs,
         StartWorkflow(w, e, input)
  PROVE  SingletonInv'
<1>1. /\ definitions' = definitions
      /\ definitions[w] # None
      /\ executions'[e] # None
      /\ executions'[e].workflow = w
      /\ \A f \in Executions \ {e} : executions'[f] = executions[f]
  <2> DEFINE x == [workflow |-> w, status |-> "Running",
                   currentStepName |-> definitions[w].start,
                   currentStepAttempt |-> 0]
  <2>1. /\ executions' = [executions EXCEPT ![e] = x]
        /\ definitions' = definitions
        /\ definitions[w] # None
    BY DEF StartWorkflow
  <2>2. definitions[w].start \in StepNames
    BY <2>1 DEF TypeOK, Definition
  <2>3. x \in ExecutionRow
    BY <2>2 DEF ExecutionRow, ExecutionStatus, Attempts, BoundsAssumption
  <2>4. executions'[e] = x
    BY <2>1 DEF TypeOK
  <2>5. executions'[e] # None /\ executions'[e].workflow = w
    BY <2>3, <2>4, NoneAssumption
  <2>6. \A f \in Executions \ {e} : executions'[f] = executions[f]
    BY <2>1 DEF TypeOK
  <2> QED BY <2>1, <2>5, <2>6
<1>2. \A f \in Executions : executions'[f] # None => DefinitionOf(f)' # None
  BY <1>1 DEF SingletonInv, DefinitionOf
<1>3. ASSUME NEW f \in Executions, IsRunning(f)', DefinitionOf(f)'.singleton
      PROVE  singletonLocks'[executions'[f].workflow] = f
  <2>1. CASE f = e
    BY <1>1, <1>3, <2>1 DEF StartWorkflow, DefinitionOf, TypeOK
  <2>2. CASE f # e
    <3>1. /\ executions'[f] = executions[f]
          /\ IsRunning(f)
          /\ DefinitionOf(f).singleton
          /\ singletonLocks[executions[f].workflow] = f
      BY <1>1, <1>3, <2>2 DEF IsRunning, DefinitionOf, SingletonInv
    <3>2. CASE executions[f].workflow # w
      BY <3>1, <3>2 DEF StartWorkflow, TypeOK
    <3>3. CASE executions[f].workflow = w
      <4>1. definitions[w].singleton /\ singletonLocks[w] = f
        BY <3>1, <3>3 DEF DefinitionOf
      <4>2. f # None
        BY NoneAssumption
      <4>3. FALSE
        BY <3>1, <4>1, <4>2 DEF StartWorkflow, SingletonFree
      <4> QED BY <4>3
    <3> QED BY <3>2, <3>3
  <2> QED BY <2>1, <2>2
<1> QED BY <1>1, <1>2, <1>3 DEF SingletonInv

\* While no registration changes a workflow's singleton flag, at most one
\* execution of a singleton workflow runs, however many callers start it.
THEOREM SingletonsExclusive ==
  ASSUME StableSingletons PROVE Spec => []SingletonExclusive
<1>1. Init => SingletonInv
  BY DEF Init, SingletonInv, IsRunning
<1>2. TypeOK /\ SingletonInv /\ [Next]_vars => SingletonInv'
  <2> SUFFICES ASSUME TypeOK, SingletonInv, [Next]_vars PROVE SingletonInv'
    OBVIOUS
  <2>1. CASE Start
    BY <2>1, StartKeepsSingletons, BoundsAssumption, NoneAssumption
       DEF Start
  <2>2. CASE ~Start
    <3>1. /\ singletonLocks' = singletonLocks
          /\ \A e \in Executions : executions[e] = None => executions'[e] = None
          /\ \A e \in Executions : executions[e] # None =>
               /\ executions'[e].workflow = executions[e].workflow
               /\ IsRunning(e)' => IsRunning(e)
      BY <2>2, OnlyStartStarts, BoundsAssumption, NoneAssumption
    <3>2. \A w \in Workflows :
            /\ definitions'[w] \in Definitions[w] \cup {None}
            /\ definitions[w] # None =>
                 /\ definitions'[w] # None
                 /\ definitions'[w].singleton = definitions[w].singleton
      <4>1. CASE Register
        <5>1. PICK v \in Workflows : \E d \in Definitions[v] :
                definitions' = [definitions EXCEPT ![v] = d]
          BY <4>1 DEF Register, RegisterWorkflowDefinition
        <5> PICK d \in Definitions[v] :
              definitions' = [definitions EXCEPT ![v] = d]
          BY <5>1
        <5>2. d # None
          BY DefinitionsAssumption, NoneAssumption
        <5>3. definitions[v] # None => definitions[v].singleton = d.singleton
          BY StableSingletons DEF SingletonInv, StableSingletons
        <5> QED BY <5>1, <5>2, <5>3 DEF TypeOK, SingletonInv
      <4>2. CASE ~Register
        <5>1. definitions' = definitions
          BY <2>2, <4>2, OnlyRegisterRegisters
        <5> QED BY <5>1 DEF SingletonInv
      <4> QED BY <4>1, <4>2
    <3>3. \A e \in Executions : executions'[e] # None =>
            /\ DefinitionOf(e)' # None
            /\ DefinitionOf(e)'.singleton = DefinitionOf(e).singleton
      <4> SUFFICES ASSUME NEW e \in Executions, executions'[e] # None
                   PROVE  /\ DefinitionOf(e)' # None
                          /\ DefinitionOf(e)'.singleton
                               = DefinitionOf(e).singleton
        OBVIOUS
      <4>1. executions[e] # None
        BY <3>1
      <4>2. /\ executions'[e].workflow = executions[e].workflow
            /\ executions[e].workflow \in Workflows
        BY <3>1, <4>1, CurrentSlotType
      <4>3. DefinitionOf(e) # None
        BY <4>1 DEF SingletonInv
      <4> QED BY <3>2, <4>2, <4>3 DEF DefinitionOf
    <3>4. ASSUME NEW e \in Executions, IsRunning(e)', DefinitionOf(e)'.singleton
          PROVE  singletonLocks'[executions'[e].workflow] = e
      <4>1. executions'[e] # None /\ executions[e] # None
        BY <3>1, <3>4 DEF IsRunning
      <4>2. IsRunning(e) /\ DefinitionOf(e).singleton
        BY <3>1, <3>3, <3>4, <4>1
      <4> QED BY <3>1, <4>1, <4>2 DEF SingletonInv
    <3> QED BY <3>2, <3>3, <3>4 DEF SingletonInv
  <2> QED BY <2>1, <2>2
<1>3. SingletonInv => SingletonExclusive
  BY DEF SingletonInv, SingletonExclusive, DefinitionOf
<1> QED BY <1>1, <1>2, <1>3, TypeCorrect, PTL DEF Spec

-----------------------------------------------------------------------------
(* Retries.  The invariant adds to RetriesExhausted that the current step  *)
(* is one its workflow still has, which is where its retries are read.     *)

\* No registration of a workflow changes its steps or their retries.
StableRetries ==
  \A w \in Workflows : \A c, d \in Definitions[w] : \A s \in StepNames :
    /\ c.steps[s] = None <=> d.steps[s] = None
    /\ c.steps[s] # None => c.steps[s].maxRetries = d.steps[s].maxRetries

\* The definition table holds what was registered.
Registered == \A w \in Workflows : definitions[w] \in Definitions[w] \cup {None}

LEMMA RegisteredInvariant == Spec => []Registered
<1>1. Init => Registered
  BY DEF Init, Registered
<1>2. TypeOK /\ Registered /\ [Next]_vars => Registered'
  <2> SUFFICES ASSUME TypeOK, Registered, [Next]_vars PROVE Registered'
    OBVIOUS
  <2>1. CASE Register
    BY <2>1 DEF Register, RegisterWorkflowDefinition, Registered, TypeOK
  <2>2. CASE ~Register
    BY <2>2, OnlyRegisterRegisters DEF Registered
  <2> QED BY <2>1, <2>2
<1> QED BY <1>1, <1>2, TypeCorrect, PTL DEF Spec

\* Execution e is at a step its workflow has, within the retries of that step.
Within(e) ==
  LET d == DefinitionOf(e)
      s == executions[e].currentStepName
  IN  executions[e] # None =>
        /\ d # None
        /\ StepDefined(e, s)
        /\ executions[e].currentStepAttempt <= d.steps[s].maxRetries
        /\ executions[e].status = "Failed" =>
             executions[e].currentStepAttempt = d.steps[s].maxRetries

\* A registration that keeps the retries of a workflow is no concern of its
\* executions.
LEMMA DefinitionsKeepRetries ==
  ASSUME StableRetries, TypeOK, Registered, Registered', DefinitionsAssumption,
         NoneAssumption, [Next]_vars, NEW w \in Workflows,
         definitions[w] # None, NEW s \in StepNames
  PROVE  /\ definitions'[w] # None
         /\ definitions[w].steps[s] # None =>
              /\ definitions'[w].steps[s] # None
              /\ definitions'[w].steps[s].maxRetries
                   = definitions[w].steps[s].maxRetries
<1>1. CASE Register
  <2>1. PICK v \in Workflows : \E d \in Definitions[v] :
          definitions' = [definitions EXCEPT ![v] = d]
    BY <1>1 DEF Register, RegisterWorkflowDefinition
  <2>2. PICK d \in Definitions[v] : definitions' = [definitions EXCEPT ![v] = d]
    BY <2>1
  <2>3. definitions'[w] # None
    <3>1. d # None
      BY DefinitionsAssumption, NoneAssumption
    <3> QED BY <2>2, <3>1 DEF TypeOK
  <2>4. definitions[w] \in Definitions[w] /\ definitions'[w] \in Definitions[w]
    BY <2>3 DEF Registered
  <2> QED BY <2>3, <2>4 DEF StableRetries
<1>2. CASE ~Register
  BY <1>2, OnlyRegisterRegisters
<1> QED BY <1>1, <1>2

\* Every move of an execution keeps it within its retries, by the definitions
\* the move has read.
LEMMA MoveWithin ==
  ASSUME TypeOK, BoundsAssumption, NoneAssumption, DefinitionsAssumption,
         Registered, NEW e \in Executions, Within(e), executions'[e] # None,
         Same(e) \/ Begun(e) \/ Held(e) \/ Finished(e) \/ Advanced(e)
           \/ Failed(e) \/ Canceled(e)
  PROVE  LET x == executions'[e]
             d == definitions[x.workflow]
         IN  /\ x \in ExecutionRow
             /\ d # None
             /\ d.steps[x.currentStepName] # None
             /\ x.currentStepAttempt <= d.steps[x.currentStepName].maxRetries
             /\ x.status = "Failed" =>
                  x.currentStepAttempt = d.steps[x.currentStepName].maxRetries
<1> DEFINE x == executions'[e]
           d == definitions[x.workflow]
<1>1. executions[e] # None => executions[e] \in ExecutionRow
  BY CurrentSlotType
<1>2. ASSUME NEW w \in Workflows, definitions[w] # None, NEW s \in StepNames,
             definitions[w].steps[s] # None
      PROVE  definitions[w].steps[s].maxRetries \in Nat
  BY <1>2 DEF TypeOK, Definition, StepDefinition, Attempts, BoundsAssumption
<1>3. CASE Same(e)
  BY <1>1, <1>3 DEF Same, Within, DefinitionOf, StepDefined
<1>4. CASE Held(e)
  BY <1>1, <1>4 DEF Held, Within, DefinitionOf, StepDefined
<1>5. CASE Finished(e) \/ Canceled(e)
  BY <1>5 DEF Finished, Canceled, Keeps, Reportable, IsRunning, Within,
              DefinitionOf, StepDefined
<1>6. CASE Begun(e)
  <2>1. /\ x \in ExecutionRow
        /\ x.workflow \in Workflows
        /\ x.status = "Running"
        /\ x.currentStepAttempt = 0
        /\ d # None
        /\ x.currentStepName = d.start
    BY <1>6 DEF Begun, ExecutionRow
  <2>2. d \in Definitions[x.workflow] /\ d.start \in StepNames
    BY <2>1 DEF Registered, TypeOK, Definition
  <2>3. d.steps[d.start] # None
    BY <2>1, <2>2, DefinitionsAssumption
  <2> QED BY <1>2, <2>1, <2>2, <2>3
<1>7. CASE Advanced(e)
  <2>1. /\ x \in ExecutionRow
        /\ x.workflow \in Workflows
        /\ x.currentStepName \in StepNames
        /\ x.status = "Running"
        /\ x.currentStepAttempt = 0
        /\ d # None
        /\ d.steps[x.currentStepName] # None
    BY <1>7 DEF Advanced, ExecutionRow, DefinitionOf, StepDefined
  <2> QED BY <1>2, <2>1
<1>8. CASE Failed(e)
  <2> DEFINE y == executions[e]
             m == DefinitionOf(e).steps[y.currentStepName].maxRetries
  <2>1. PICK t \in Time : steps'[e] = StepsAfterFailure(e, t)
    BY <1>8 DEF Failed
  <2>2. /\ y # None
        /\ y.status = "Running"
        /\ steps[e][CurrentSlot(e)] # None
        /\ DefinitionOf(e) # None
        /\ StepDefined(e, y.currentStepName)
        /\ x = ExecutionAfterFailure(e)
    BY <1>8 DEF Failed, Reportable, IsRunning, Has
  <2>3. /\ y.workflow \in Workflows
        /\ y.currentStepName \in StepNames
        /\ y.currentStepAttempt \in Nat
    BY <2>2, CurrentSlotType DEF Attempts, BoundsAssumption
  <2>4. m \in Nat
    BY <1>2, <2>2, <2>3 DEF DefinitionOf, StepDefined
  <2>5. y.currentStepAttempt <= m
    BY <2>2 DEF Within
  <2>6. /\ x \in ExecutionRow
        /\ x.workflow = y.workflow
        /\ x.currentStepName = y.currentStepName
        /\ \/ /\ Retries(e)
              /\ x.status = "Running"
              /\ x.currentStepAttempt = y.currentStepAttempt + 1
           \/ /\ ~Retries(e)
              /\ x.currentStepAttempt = y.currentStepAttempt
    BY <2>2, FailureFacts
  <2>7. Retries(e) <=> y.currentStepAttempt < m
    BY DEF Retries
  <2>8. d = DefinitionOf(e) /\ d.steps[x.currentStepName].maxRetries = m
    BY <2>6 DEF DefinitionOf
  <2> QED BY <2>2, <2>3, <2>4, <2>5, <2>6, <2>7, <2>8 DEF StepDefined
<1> QED BY <1>3, <1>4, <1>5, <1>6, <1>7, <1>8

\* While no registration changes the steps of a workflow or their retries, an
\* execution fails only after every retry of its step, and is never retried
\* more often, however failStep and sweepExpiredLeases take turns at it.
THEOREM RetriesAreExhausted ==
  ASSUME StableRetries PROVE Spec => []RetriesExhausted
<1> DEFINE AllWithin == \A e \in Executions : Within(e)
<1>1. Init => AllWithin
  BY DEF Init, Within
<1>2. TypeOK /\ Registered /\ Registered' /\ AllWithin /\ [Next]_vars
        => AllWithin'
  <2> SUFFICES ASSUME TypeOK, Registered, Registered', AllWithin, [Next]_vars,
                      NEW e \in Executions, executions'[e] # None
               PROVE  Within(e)'
    BY DEF Within
  <2> DEFINE x == executions'[e]
             d == definitions[x.workflow]
  <2>1. /\ x \in ExecutionRow
        /\ d # None
        /\ d.steps[x.currentStepName] # None
        /\ x.currentStepAttempt <= d.steps[x.currentStepName].maxRetries
        /\ x.status = "Failed" =>
             x.currentStepAttempt = d.steps[x.currentStepName].maxRetries
    BY EveryMoves, MoveWithin, BoundsAssumption, NoneAssumption,
       DefinitionsAssumption
  <2>2. x.workflow \in Workflows /\ x.currentStepName \in StepNames
    BY <2>1 DEF ExecutionRow
  <2>3. /\ definitions'[x.workflow] # None
        /\ definitions'[x.workflow].steps[x.currentStepName] # None
        /\ definitions'[x.workflow].steps[x.currentStepName].maxRetries
             = d.steps[x.currentStepName].maxRetries
    BY <2>1, <2>2, StableRetries, DefinitionsKeepRetries,
       DefinitionsAssumption, NoneAssumption
  <2> QED BY <2>1, <2>3 DEF Within, DefinitionOf, StepDefined
<1>3. AllWithin => RetriesExhausted
  BY DEF Within, RetriesExhausted
<1> HIDE DEF AllWithin
<1> QED BY <1>1, <1>2, <1>3, TypeCorrect, RegisteredInvariant, PTL DEF Spec

-----------------------------------------------------------------------------
(* Claims.                                                                 *)

\* A row under a live lease is its running execution's current attempt, so it
\* is not on offer to a poll and not due in a sweep.
LEMMA LiveLeaseFacts ==
  ASSUME TypeOK, NEW e \in Executions, Agrees(e), NEW k \in Slots,
         LeaseLive(e, k)
  PROVE  /\ executions[e] # None
         /\ IsRunning(e)
         /\ k = CurrentSlot(e)
         /\ \A w : \A t \in ClockReadings : <<e, k>> \notin Claimable(w, t)
         /\ \A t \in ClockReadings : e \notin Due(t)
<1>1. Active(e, k) /\ steps[e][k] # None /\ steps[e][k] \in StepRow
  BY DEF LeaseLive, Has, Active, TypeOK
<1>2. executions[e] # None /\ k = CurrentSlot(e)
  BY <1>1 DEF Agrees
<1>3. IsRunning(e)
  <2>1. executions[e].status \in ExecutionStatus
    BY <1>2, CurrentSlotType DEF ExecutionRow
  <2> QED BY <1>1, <1>2, <2>1
          DEF Agrees, Active, Has, CurrentStatus, IsRunning, ExecutionStatus
<1>4. ASSUME NEW t \in ClockReadings
      PROVE  ~(steps[e][k].leaseExpiresAt # None
                 /\ steps[e][k].leaseExpiresAt <= t)
  <2>1. t \in Time /\ t <= now /\ now \in Time
    BY DEF ClockReadings, TypeOK
  <2>2. steps[e][k].leaseExpiresAt \in Time \cup {None}
    BY <1>1 DEF StepRow
  <2> QED BY <2>1, <2>2 DEF LeaseLive, Time, BoundsAssumption
<1>5. steps[e][k].status = "Running"
  BY DEF LeaseLive, Has
<1>6. \A w : \A t \in ClockReadings : <<e, k>> \notin Claimable(w, t)
  BY <1>4, <1>5 DEF Claimable, IsClaimable
<1>7. \A t \in ClockReadings : e \notin Due(t)
  BY <1>2, <1>4 DEF Due
<1> QED BY <1>2, <1>3, <1>6, <1>7

\* A report that is not refused is the owner's.
LEMMA ReportIsOwners ==
  ASSUME TypeOK, NEW e \in Executions, NEW w \in Workers, Report(e, w)
  PROVE  /\ steps[e][CurrentSlot(e)].workerId = w
         /\ \A f \in Executions \ {e} : steps'[f] = steps[f]
<1>1. \E s \in StepNames, t \in ClockReadings : MayReport(e, s, w, t)
  BY DEF Report, KeepAliveStep, CompleteWorkflow, CompleteStep, FailStep
<1>2. \A f \in Executions \ {e} : steps'[f] = steps[f]
  BY DEF Report, KeepAliveStep, CompleteWorkflow, CompleteStep, FailStep, TypeOK
<1> QED BY <1>1, <1>2 DEF MayReport, OwnsClaim

\* Whatever neither the owner of a live lease reports nor a user cancels
\* leaves the row under it alone.
LEMMA LiveRowKept ==
  ASSUME TablesInv, NEW e \in Executions, NEW k \in Slots, LeaseLive(e, k),
         \/ Register \/ Start \/ Poll \/ SweepExpiredLeases \/ Tick
         \/ UNCHANGED vars
         \/ \E f \in Executions, w \in Workers :
              Report(f, w) /\ (f # e \/ w # steps[e][k].workerId)
         \/ \E f \in Executions \ {e} : CancelWorkflow(f)
  PROVE  steps'[e][k] = steps[e][k]
<1> USE DEF TablesInv
<1>1. /\ executions[e] # None
      /\ k = CurrentSlot(e)
      /\ \A w : \A t \in ClockReadings : <<e, k>> \notin Claimable(w, t)
      /\ \A t \in ClockReadings : e \notin Due(t)
  BY LiveLeaseFacts DEF TablesAgree
<1>2. CASE Register \/ Tick \/ UNCHANGED vars
  BY <1>2 DEF Register, RegisterWorkflowDefinition, Tick, vars
<1>3. CASE Start
  BY <1>1, <1>3 DEF Start, StartWorkflow, TypeOK
<1>4. CASE Poll
  BY <1>1, <1>4 DEF Poll, PollAndClaimWorkflowSteps
<1>5. ASSUME NEW f \in Executions, NEW w \in Workers, Report(f, w),
             f # e \/ w # steps[e][k].workerId
      PROVE  steps'[e][k] = steps[e][k]
  BY <1>1, <1>5, ReportIsOwners
<1>6. CASE \E f \in Executions \ {e} : CancelWorkflow(f)
  BY <1>6 DEF CancelWorkflow, TypeOK
<1>7. CASE SweepExpiredLeases
  BY <1>1, <1>7 DEF SweepExpiredLeases
<1> QED BY <1>2, <1>3, <1>4, <1>5, <1>6, <1>7

\* While the lease on a claim lasts, the row changes by its owner's reports and
\* by cancelWorkflow only; and what changes it is no report of another worker, no
\* poll and no sweep that happens to write the same.
THEOREM LiveLeasesRespected == Spec => LiveLeaseRespected
<1>1. ASSUME TablesInv, [Next]_vars, NEW e \in Executions, NEW k \in Slots,
             LeaseLive(e, k), steps'[e][k] # steps[e][k]
      PROVE  /\ Report(e, steps[e][k].workerId) \/ CancelWorkflow(e)
             /\ \A w \in Workers \ {steps[e][k].workerId} : ~Report(e, w)
             /\ ~Poll
             /\ ~SweepExpiredLeases
  <2>1. ~(\/ Register \/ Start \/ Poll \/ SweepExpiredLeases \/ Tick
          \/ UNCHANGED vars)
    BY <1>1, LiveRowKept
  <2>2. ASSUME NEW f \in Executions, NEW w \in Workers, Report(f, w)
        PROVE  f = e /\ w = steps[e][k].workerId
    BY <1>1, <2>2, LiveRowKept
  <2>3. ASSUME NEW f \in Executions, CancelWorkflow(f)
        PROVE  f = e
    BY <1>1, <2>3, LiveRowKept
  <2> QED BY <1>1, <2>1, <2>2, <2>3 DEF Next
<1>2. TablesInv /\ [Next]_vars =>
        [\A e \in Executions, k \in Slots :
           LeaseLive(e, k) /\ steps'[e][k] # steps[e][k] =>
             /\ Report(e, steps[e][k].workerId) \/ CancelWorkflow(e)
             /\ \A w \in Workers \ {steps[e][k].workerId} : ~Report(e, w)
             /\ ~Poll
             /\ ~SweepExpiredLeases]_vars
  BY <1>1
<1> QED BY <1>2, TablesInvariant, PTL DEF Spec, LiveLeaseRespected

-----------------------------------------------------------------------------
(* Orchestrator implements WorkflowLifecycle.                              *)

lifeMap == [e \in Executions |-> Life(e)]

\* What Life shows of an execution that has started.
LEMMA LifeOf ==
  ASSUME TablesInv, NoneAssumption, NEW e \in Executions, executions[e] # None
  PROVE  /\ Life(e) \in LifeRow
         /\ Life(e) # None
         /\ Life(e).step = executions[e].currentStepName
         /\ Life(e).attempt = executions[e].currentStepAttempt
         /\ Life(e) =
              [phase   |-> IF IsRunning(e) THEN steps[e][CurrentSlot(e)].status
                                           ELSE executions[e].status,
               step    |-> executions[e].currentStepName,
               attempt |-> executions[e].currentStepAttempt,
               holder  |-> IF steps[e][CurrentSlot(e)].status = "Running"
                           THEN steps[e][CurrentSlot(e)].workerId ELSE None]
<1>1. /\ executions[e] \in ExecutionRow
      /\ executions[e].currentStepName \in StepNames
      /\ executions[e].currentStepAttempt \in Attempts
      /\ CurrentSlot(e) \in Slots
  BY CurrentSlotType DEF TablesInv
<1>2. steps[e][CurrentSlot(e)] \in StepRow
  BY <1>1 DEF TablesInv, TypeOK, TablesAgree, Agrees, Has
<1>3. Life(e) \in LifeRow
  BY <1>1, <1>2 DEF Life, LifeRow, StepRow, ExecutionRow, ExecutionStatus,
                    StepStatus
<1> QED BY <1>3, NoneAssumption DEF Life

\* How the record update of WorkflowLifecycle reads, field by field.
LEMMA LifeExcept ==
  ASSUME NEW r \in LifeRow, NEW p \in StepStatus,
         NEW h \in Workers \cup {None}
  PROVE  [r EXCEPT !.phase = p, !.holder = h] =
           [phase |-> p, step |-> r.step, attempt |-> r.attempt, holder |-> h]
<1> DEFINE q == [r EXCEPT !.phase = p, !.holder = h]
<1>1. /\ q \in LifeRow
      /\ q.phase = p
      /\ q.step = r.step
      /\ q.attempt = r.attempt
      /\ q.holder = h
  BY DEF LifeRow
<1>2. \A x \in LifeRow : x = [phase |-> x.phase, step |-> x.step,
                              attempt |-> x.attempt, holder |-> x.holder]
  BY DEF LifeRow
<1> HIDE DEF q
<1>3. q = [phase |-> p, step |-> r.step, attempt |-> r.attempt, holder |-> h]
  BY <1>1, <1>2
<1> QED BY <1>3 DEF q

\* A running execution is offered while its current row is pending, and
\* claimed by that row's worker while it is running.
LEMMA LifeOfRunning ==
  ASSUME TablesInv, NoneAssumption, NEW e \in Executions, IsRunning(e)
  PROVE  /\ Life(e).phase = steps[e][CurrentSlot(e)].status
         /\ Life(e).phase \in {"Pending", "Running"}
         /\ Reportable(e) => Life(e).phase = "Running"
<1>1. executions[e] # None
  BY DEF IsRunning
<1>2. Life(e).phase = steps[e][CurrentSlot(e)].status
  BY <1>1, LifeOf
<1> QED BY <1>1, <1>2
        DEF TablesInv, TablesAgree, Agrees, Has, CurrentStatus, IsRunning,
            Reportable

\* An execution that does not move looks the same to WorkflowLifecycle.
LEMMA SameLife ==
  ASSUME NEW e \in Executions, Same(e) PROVE Life(e)' = Life(e)
BY DEF Same, Life, IsRunning, CurrentSlot

\* A pending row at the current slot of a running execution is an offer.
LEMMA FreshLife ==
  ASSUME NEW e \in Executions, executions'[e] # None,
         executions'[e].status = "Running",
         steps'[e][CurrentSlot(e)'].status = "Pending"
  PROVE  Life(e)' = Lifecycle!Offer(executions'[e].currentStepName,
                                    executions'[e].currentStepAttempt)
BY DEF Life, IsRunning, Lifecycle!Offer

\* An execution that ended shows its own status, and no holder.
LEMMA EndedLife ==
  ASSUME NEW e \in Executions, TablesInv, NoneAssumption, Agrees(e)',
         executions[e] # None,
         NEW status \in {"Completed", "Failed", "Canceled"},
         executions'[e] # None, executions'[e].status = status,
         executions'[e].currentStepName = executions[e].currentStepName,
         executions'[e].currentStepAttempt = executions[e].currentStepAttempt
  PROVE  Life(e)' = [Life(e) EXCEPT !.phase = status, !.holder = None]
<1>1. /\ Life(e) \in LifeRow
      /\ Life(e).step = executions[e].currentStepName
      /\ Life(e).attempt = executions[e].currentStepAttempt
  BY LifeOf
<1>2. ~IsRunning(e)' /\ steps'[e][CurrentSlot(e)'].status = status
  BY DEF Agrees, Has, CurrentStatus, IsRunning
<1>3. Life(e)' = [phase |-> status, step |-> executions[e].currentStepName,
                  attempt |-> executions[e].currentStepAttempt,
                  holder |-> None]
  BY <1>2 DEF Life
<1> QED BY <1>1, <1>3, LifeExcept DEF StepStatus

\* Each move of an execution is the abstract one of the same name.
LEMMA BegunLife ==
  ASSUME NEW e \in Executions, NoneAssumption, Begun(e), Agrees(e)',
         steps[e] \in StepRows, BoundsAssumption
  PROVE  /\ Life(e) = None
         /\ \E s \in StepNames : Life(e)' = Lifecycle!Offer(s, 0)
<1>1. /\ executions'[e] # None
      /\ executions'[e].currentStepName \in StepNames
  BY NoneAssumption DEF Begun, ExecutionRow
<1>2. CurrentSlot(e)' = <<executions'[e].currentStepName, 0>>
  BY DEF Begun, CurrentSlot
<1>3. CurrentSlot(e)' \in Slots
  BY <1>1, <1>2 DEF Slots, Attempts, BoundsAssumption
<1>4. steps'[e][CurrentSlot(e)'].status = "Pending"
  BY <1>2, <1>3 DEF Begun, StepRows
<1>5. Life(e)' = Lifecycle!Offer(executions'[e].currentStepName, 0)
  BY <1>1, <1>4, FreshLife DEF Begun
<1>6. Life(e) = None
  BY DEF Begun, Life
<1> QED BY <1>1, <1>5, <1>6

\* A claim or a renewal is a step Claims of WorkflowLifecycle, or none.
LEMMA HeldLife ==
  ASSUME NEW e \in Executions, TablesInv, NoneAssumption, Held(e)
  PROVE  \/ Life(e)' = Life(e)
         \/ /\ Life(e) # None
            /\ Life(e).phase \in {"Pending", "Running"}
            /\ \E w \in Workers :
                 Life(e)' = [Life(e) EXCEPT !.phase = "Running", !.holder = w]
<1> DEFINE c == CurrentSlot(e)
<1>1. executions[e] # None /\ executions'[e] = executions[e] /\ c \in Slots
  BY CurrentSlotType DEF Held, TablesInv
<1>2. CASE steps'[e][c] = steps[e][c]
  BY <1>1, <1>2 DEF Life, IsRunning, CurrentSlot
<1>3. CASE /\ Active(e, c)
           /\ steps'[e][c].status = "Running"
           /\ steps'[e][c].workerId \in Workers
  <2>1. IsRunning(e)
    <3>1. executions[e].status \in ExecutionStatus
      BY <1>1, CurrentSlotType DEF TablesInv, ExecutionRow
    <3> QED BY <1>1, <1>3, <3>1
            DEF TablesInv, TablesAgree, Agrees, Has, Active, CurrentStatus,
                ExecutionStatus, IsRunning
  <2>2. Life(e)' = [phase |-> "Running",
                    step |-> executions[e].currentStepName,
                    attempt |-> executions[e].currentStepAttempt,
                    holder |-> steps'[e][c].workerId]
    BY <1>1, <1>3, <2>1 DEF Life, IsRunning, CurrentSlot
  <2>3. /\ Life(e) \in LifeRow
        /\ Life(e) # None
        /\ Life(e).step = executions[e].currentStepName
        /\ Life(e).attempt = executions[e].currentStepAttempt
    BY <1>1, LifeOf
  <2>4. Life(e)' = [Life(e) EXCEPT !.phase = "Running",
                                   !.holder = steps'[e][c].workerId]
    <3>1. "Running" \in StepStatus /\ steps'[e][c].workerId \in Workers \cup {None}
      BY <1>3 DEF StepStatus
    <3>2. [Life(e) EXCEPT !.phase = "Running", !.holder = steps'[e][c].workerId]
            = [phase |-> "Running", step |-> Life(e).step,
               attempt |-> Life(e).attempt, holder |-> steps'[e][c].workerId]
      BY <2>3, <3>1, LifeExcept
    <3> QED BY <2>2, <2>3, <3>2
  <2> QED BY <1>3, <2>1, <2>3, <2>4, LifeOfRunning
<1> QED BY <1>1, <1>2, <1>3 DEF Held

\* Handing an execution on is a step Advances of WorkflowLifecycle.
LEMMA AdvancedLife ==
  ASSUME NEW e \in Executions, TablesInv, NoneAssumption, BoundsAssumption,
         Advanced(e)
  PROVE  \E s \in StepNames : Life(e)' = Lifecycle!Offer(s, 0)
<1>1. /\ executions'[e] # None
      /\ executions'[e].currentStepName \in StepNames
  BY NoneAssumption DEF Advanced, ExecutionRow
<1>2. CurrentSlot(e)' = <<executions'[e].currentStepName, 0>>
  BY DEF Advanced, CurrentSlot
<1>3. CurrentSlot(e)' \in Slots
  BY <1>1, <1>2 DEF Slots, Attempts, BoundsAssumption
<1>4. Released(e, "Completed") \in StepRows
  BY ReleasedInactive DEF Advanced, TablesInv, TablesAgree
<1>5. steps'[e][CurrentSlot(e)'].status = "Pending"
  BY <1>2, <1>3, <1>4 DEF Advanced, StepRows
<1>6. Life(e)' = Lifecycle!Offer(executions'[e].currentStepName, 0)
  BY <1>1, <1>5, FreshLife DEF Advanced
<1> QED BY <1>1, <1>6

\* A failed attempt is a step Fails of WorkflowLifecycle.
LEMMA FailedLife ==
  ASSUME NEW e \in Executions, TablesInv, NoneAssumption, BoundsAssumption,
         Failed(e), Agrees(e)'
  PROVE  /\ Life(e) # None
         /\ Life(e).phase = "Running"
         /\ \/ Life(e)' = Lifecycle!Offer(Life(e).step, Life(e).attempt + 1)
            \/ Life(e)' = [Life(e) EXCEPT !.phase = "Failed", !.holder = None]
<1>1. PICK t \in Time : steps'[e] = StepsAfterFailure(e, t)
  BY DEF Failed
<1>2. /\ executions[e] # None
      /\ IsRunning(e)
      /\ executions[e].status = "Running"
      /\ steps[e][CurrentSlot(e)] # None
      /\ DefinitionOf(e) # None
      /\ StepDefined(e, executions[e].currentStepName)
      /\ executions'[e] = ExecutionAfterFailure(e)
      /\ TypeOK
  BY DEF Failed, Reportable, IsRunning, Has, TablesInv
<1>3. executions'[e] # None
  BY <1>2, FailureFacts, NoneAssumption
<1>4. /\ Life(e) # None
      /\ Life(e).phase = "Running"
      /\ Life(e).step = executions[e].currentStepName
      /\ Life(e).attempt = executions[e].currentStepAttempt
  BY <1>2, LifeOf, LifeOfRunning DEF Failed
<1>5. CASE Retries(e)
  <2>1. /\ executions'[e].status = "Running"
        /\ executions'[e].currentStepName = executions[e].currentStepName
        /\ executions'[e].currentStepAttempt
             = executions[e].currentStepAttempt + 1
        /\ executions[e].currentStepAttempt + 1 \in Attempts
        /\ steps'[e] =
             [Released(e, "Failed") EXCEPT
                ![<<executions[e].currentStepName,
                    executions[e].currentStepAttempt + 1>>] =
                  NewStep(steps[e][CurrentSlot(e)].input, t, None)]
    BY <1>1, <1>2, <1>5, FailureFacts
  <2>2. /\ CurrentSlot(e)' = <<executions[e].currentStepName,
                               executions[e].currentStepAttempt + 1>>
        /\ CurrentSlot(e)' \in Slots
    BY <1>2, <2>1, CurrentSlotType DEF CurrentSlot, Slots
  <2>3. Released(e, "Failed") \in StepRows
    BY <1>2, ReleasedInactive DEF Failed, TablesInv, TablesAgree
  <2>4. steps'[e][CurrentSlot(e)'].status = "Pending"
    BY <2>1, <2>2, <2>3 DEF StepRows, NewStep
  <2> QED BY <1>3, <1>4, <2>1, <2>4, FreshLife
<1>6. CASE ~Retries(e)
  <2>1. /\ executions'[e].status = "Failed"
        /\ executions'[e].currentStepName = executions[e].currentStepName
        /\ executions'[e].currentStepAttempt = executions[e].currentStepAttempt
    BY <1>2, <1>6, FailureFacts
  <2> QED BY <1>2, <1>3, <1>4, <2>1, EndedLife
<1> QED BY <1>5, <1>6

\* The orchestrator implements the lifecycle: nothing any operation does to
\* the tables shows more than an offer, a claim, a hand-over, a retry or an
\* end of the executions it touches.
THEOREM ImplementsLifecycle == Spec => LifecycleSpec
<1>1. Init => Lifecycle!Init
  BY DEF Init, Lifecycle!Init, Life
<1>2. ASSUME TablesInv, TablesInv', [Next]_vars
      PROVE  [Lifecycle!Next]_lifeMap
  <2>1. \A e \in Executions : Agrees(e)'
    BY <1>2 DEF TablesInv, TablesAgree
  <2>2. /\ TypeOK
        /\ \A e \in Executions : Agrees(e)
        /\ \A e \in Executions : steps[e] \in StepRows
    BY <1>2 DEF TablesInv, TablesAgree, TypeOK, StepRows
  <2>3. ASSUME NEW e \in Executions, Same(e) \/ Held(e)
        PROVE  Life(e)' = Life(e) \/ Lifecycle!Claims(e)
    BY <1>2, <2>3, SameLife, HeldLife, NoneAssumption
       DEF Lifecycle!Claims, Lifecycle!In
  <2>4. ASSUME NEW e \in Executions, Same(e) \/ Failed(e)
        PROVE  Life(e)' = Life(e) \/ Lifecycle!Fails(e)
    BY <1>2, <2>1, <2>4, SameLife, FailedLife, NoneAssumption,
       BoundsAssumption DEF Lifecycle!Fails, Lifecycle!In
  <2>5. CASE \A e \in Executions : Same(e)
    BY <2>5, SameLife DEF lifeMap
  <2>6. CASE \A e \in Executions : Same(e) \/ Held(e)
    BY <2>3, <2>6 DEF Lifecycle!Next
  <2>7. CASE \A e \in Executions : Same(e) \/ Failed(e)
    BY <2>4, <2>7 DEF Lifecycle!Next
  <2>8. ASSUME NEW e \in Executions, OneMoves(e)
        PROVE  [Lifecycle!Next]_lifeMap
    <3>1. \A f \in Executions \ {e} : Life(f)' = Life(f)
      BY <2>8, SameLife DEF OneMoves
    <3>2. CASE Begun(e)
      <4>1. Lifecycle!Begins(e)
        BY <2>1, <2>2, <3>2, BegunLife, NoneAssumption, BoundsAssumption
           DEF Lifecycle!Begins
      <4> QED BY <3>1, <4>1 DEF Lifecycle!Next
    <3>3. CASE Held(e)
      BY <2>3, <3>1, <3>3 DEF Lifecycle!Next
    <3>4. CASE Finished(e)
      <4>1. /\ IsRunning(e) /\ Reportable(e)
            /\ executions[e] # None
            /\ executions'[e] # None
            /\ executions'[e].status = "Completed"
        BY <3>4, NoneAssumption DEF Finished, Reportable, IsRunning, Keeps
      <4>2. Life(e) # None /\ Life(e).phase = "Running"
        BY <1>2, <4>1, LifeOf, LifeOfRunning, NoneAssumption
      <4>3. Life(e)' = [Life(e) EXCEPT !.phase = "Completed", !.holder = None]
        BY <1>2, <2>1, <3>4, <4>1, EndedLife, NoneAssumption
           DEF Finished, Keeps
      <4>4. Lifecycle!Finishes(e)
        BY <4>2, <4>3 DEF Lifecycle!Finishes, Lifecycle!In
      <4> QED BY <3>1, <4>4 DEF Lifecycle!Next
    <3>5. CASE Advanced(e)
      <4>1. Life(e) # None /\ Life(e).phase = "Running"
        BY <1>2, <3>5, LifeOf, LifeOfRunning, NoneAssumption
           DEF Advanced, Reportable, IsRunning
      <4>2. Lifecycle!Advances(e)
        BY <1>2, <3>5, <4>1, AdvancedLife, NoneAssumption, BoundsAssumption
           DEF Lifecycle!Advances, Lifecycle!In
      <4> QED BY <3>1, <4>2 DEF Lifecycle!Next
    <3>6. CASE Failed(e)
      <4>1. Lifecycle!Fails(e)
        BY <1>2, <2>1, <3>6, FailedLife, NoneAssumption, BoundsAssumption
           DEF Lifecycle!Fails, Lifecycle!In
      <4> QED BY <3>1, <4>1 DEF Lifecycle!Next
    <3>7. CASE Canceled(e)
      <4>1. /\ IsRunning(e)
            /\ executions[e] # None
            /\ executions'[e] # None
            /\ executions'[e].status = "Canceled"
        BY <3>7, NoneAssumption DEF Canceled, IsRunning, Keeps
      <4>2. Life(e) # None /\ Life(e).phase \in {"Pending", "Running"}
        BY <1>2, <4>1, LifeOf, LifeOfRunning, NoneAssumption
      <4>3. Life(e)' = [Life(e) EXCEPT !.phase = "Canceled", !.holder = None]
        BY <1>2, <2>1, <3>7, <4>1, EndedLife, NoneAssumption
           DEF Canceled, Keeps
      <4>4. Lifecycle!Cancels(e)
        BY <4>2, <4>3 DEF Lifecycle!Cancels, Lifecycle!In
      <4> QED BY <3>1, <4>4 DEF Lifecycle!Next
    <3> QED BY <2>8, <3>2, <3>3, <3>4, <3>5, <3>6, <3>7 DEF OneMoves
  <2>9. Moves
    BY <1>2, <2>2, NextMoves, BoundsAssumption
  <2> QED BY <2>5, <2>6, <2>7, <2>8, <2>9 DEF Moves
<1>3. ASSUME TablesInv, TablesInv', [Next]_vars
      PROVE  [Lifecycle!Next]_([e \in Executions |-> Life(e)])
  BY <1>2, <1>3 DEF lifeMap
<1> QED BY <1>1, <1>3, TablesInvariant, PTL
        DEF Spec, LifecycleSpec, Lifecycle!Spec

=============================================================================
