---------------------------- MODULE Orchestrator ----------------------------
(***************************************************************************)
(* WorkflowOrchestrator: the four tables it keeps and the operations that  *)
(* change them.  Every operation runs inside one mt transaction, which the *)
(* library retries until it commits, so each is one atomic step here; an   *)
(* operation that throws rolls back, so its guard is false here.           *)
(*                                                                         *)
(* Callers are not constrained: any worker may report on any step at any   *)
(* time (late, twice, for a claim it has lost), which is what lost and     *)
(* delayed calls of real workers amount to.                                *)
(***************************************************************************)
EXTENDS Integers, FiniteSets

CONSTANTS
  Executions,   \* identifiers generateExecutionId can return
  Workflows,    \* (workflowName, workflowVersion) pairs
  StepNames,
  Workers,
  Inputs,       \* step inputs, opaque to the orchestrator
  Definitions,  \* what may be registered: Workflows -> sets of definitions
  MaxAttempt,   \* bound on every maxRetries of Definitions
  Delays,       \* nextStepDelay values, in ticks
  MaxBatch,     \* bound on maxResults of a poll
  MaxTime,      \* the last tick: no time stamp lies beyond it
  MaxClockLag,  \* how long a transaction may commit after reading the clock
  None          \* std::nullopt: an unset field or a row that is not there

Time == 0..MaxTime
Attempts == 0..MaxAttempt
Slots == StepNames \X Attempts

ExecutionStatus == {"Running", "Completed", "Failed", "Canceled"}
StepStatus == {"Pending", "Running", "Completed", "Failed", "Canceled"}

\* A WorkflowStep as the orchestrator uses it.  lease is None when
\* leaseDurationForStep throws: the step has no expectedExecutionTime, or one
\* that parseIso8601DurationToSeconds rejects.
StepDefinition == [maxRetries : Attempts, lease : (Nat \ {0}) \cup {None}]

Definition == [singleton : BOOLEAN, start : StepNames,
               steps : [StepNames -> StepDefinition \cup {None}]]

ExecutionRow == [workflow : Workflows, status : ExecutionStatus,
                 currentStepName : StepNames, currentStepAttempt : Attempts]

StepRow == [status : StepStatus, workerId : Workers \cup {None},
            leaseExpiresAt : Time \cup {None}, createdAt : Time,
            scheduledAt : Time \cup {None}, input : Inputs]

\* What WorkflowLifecycle shows of an execution (see Life below).
LifeRow == [phase : StepStatus, step : StepNames, attempt : Attempts,
            holder : Workers \cup {None}]

ASSUME BoundsAssumption ==
  /\ MaxAttempt \in Nat
  /\ MaxTime \in Nat
  /\ MaxClockLag \in Nat
  /\ MaxBatch \in Nat
  /\ \A d \in Delays : d \in Nat /\ d > 0

ASSUME NoneAssumption ==
  /\ None \notin Nat
  /\ None \notin Workflows \cup Executions \cup Workers
  /\ None \notin Definition \cup StepDefinition
  /\ None \notin ExecutionRow
  /\ None \notin StepRow
  /\ None \notin LifeRow

\* validateWorkflowJson admits a definition only when its first step is one of
\* its steps.
ASSUME DefinitionsAssumption ==
  \A w \in Workflows : \A d \in Definitions[w] :
    d \in Definition /\ d.steps[d.start] # None

VARIABLES
  definitions,     \* the definition table
  executions,      \* the execution table
  singletonLocks,  \* the lock table: the execution each lock points at
  steps,           \* the step table, keyed by execution and <<name, attempt>>
  now              \* the system clock

vars == <<definitions, executions, singletonLocks, steps, now>>

TypeOK ==
  /\ definitions \in [Workflows -> Definition \cup {None}]
  /\ executions \in [Executions -> ExecutionRow \cup {None}]
  /\ singletonLocks \in [Workflows -> Executions \cup {None}]
  /\ steps \in [Executions -> [Slots -> StepRow \cup {None}]]
  /\ now \in Time

Init ==
  /\ definitions = [w \in Workflows |-> None]
  /\ executions = [e \in Executions |-> None]
  /\ singletonLocks = [w \in Workflows |-> None]
  /\ steps = [e \in Executions |-> [k \in Slots |-> None]]
  /\ now = 0

-----------------------------------------------------------------------------
(* Rows and their state.                                                   *)

Has(e, k, statuses) == steps[e][k] # None /\ steps[e][k].status \in statuses

Active(e, k) == Has(e, k, {"Pending", "Running"})

IsRunning(e) == executions[e] # None /\ executions[e].status = "Running"

\* The slot currentStepName and currentStepAttempt name.
CurrentSlot(e) ==
  <<executions[e].currentStepName, executions[e].currentStepAttempt>>

DefinitionOf(e) == definitions[executions[e].workflow]

StepDefined(e, s) == DefinitionOf(e).steps[s] # None

HasLease(e, s) == StepDefined(e, s) /\ DefinitionOf(e).steps[s].lease # None

\* What one transaction can read from the clock before it commits.
ClockReadings == {t \in Time : t <= now /\ now <= t + MaxClockLag}

NewStep(input, t, scheduledAt) ==
  [status |-> "Pending", workerId |-> None, leaseExpiresAt |-> None,
   createdAt |-> t, scheduledAt |-> scheduledAt, input |-> input]

IsClaimable(row, t) ==
  \/ /\ row.status = "Pending"
     /\ row.scheduledAt # None => row.scheduledAt <= t
  \/ /\ row.status = "Running"
     /\ row.leaseExpiresAt # None
     /\ row.leaseExpiresAt <= t

\* Steps of running or pending rows of the polled workflow, as <<e, slot>>.
Claimable(w, t) ==
  {p \in Executions \X Slots :
     /\ executions[p[1]] # None
     /\ executions[p[1]].workflow = w
     /\ steps[p[1]][p[2]] # None
     /\ IsClaimable(steps[p[1]][p[2]], t)}

Claimed(row, w, expiry) ==
  [row EXCEPT !.status = "Running", !.workerId = w, !.leaseExpiresAt = expiry]

\* Mutant: whoever reports owns the claim.
OwnsClaim_AnyWorker(row, w, t) ==
  /\ row.status = "Running"
  /\ row.leaseExpiresAt # None
  /\ row.leaseExpiresAt > t

\* validateClaimOwnership at clock reading t.
OwnsClaim(row, w, t) ==
  /\ row.status = "Running"
  /\ row.workerId = w
  /\ row.leaseExpiresAt # None
  /\ row.leaseExpiresAt > t

\* The checks keepAliveStep, completeStep and failStep share: the execution
\* runs, s is its current step, and w owns the claim on the current attempt.
MayReport(e, s, w, t) ==
  /\ IsRunning(e)
  /\ executions[e].currentStepName = s
  /\ steps[e][CurrentSlot(e)] # None
  /\ OwnsClaim(steps[e][CurrentSlot(e)], w, t)
  /\ DefinitionOf(e) # None

\* The rows of an execution with its current attempt released: no lease, and
\* a final status.
ReleasedRow(row, status) ==
  [row EXCEPT !.status = status, !.leaseExpiresAt = None]

Released(e, status) ==
  [steps[e] EXCEPT ![CurrentSlot(e)] = ReleasedRow(@, status)]

-----------------------------------------------------------------------------
(* What a failed attempt does to its execution, in failStep and in the     *)
(* sweep: retry with the same input while maxRetries allows it, else fail. *)

\* Mutant: one retry too many.
Retries_OneMore(e) ==
  executions[e].currentStepAttempt
    <= DefinitionOf(e).steps[executions[e].currentStepName].maxRetries

\* Mutant: one retry too few.
Retries_OneFewer(e) ==
  executions[e].currentStepAttempt + 1
    < DefinitionOf(e).steps[executions[e].currentStepName].maxRetries

Retries(e) ==
  executions[e].currentStepAttempt
    < DefinitionOf(e).steps[executions[e].currentStepName].maxRetries

\* Mutant: the execution row keeps the failed attempt as its current one.
ExecutionAfterFailure_SameAttempt(e) ==
  IF Retries(e) THEN executions[e]
                ELSE [executions[e] EXCEPT !.status = "Failed"]

ExecutionAfterFailure(e) ==
  IF Retries(e)
  THEN [executions[e] EXCEPT !.currentStepAttempt = @ + 1]
  ELSE [executions[e] EXCEPT !.status = "Failed"]

\* Mutant: the retry runs on an input other than the failed attempt's.
StepsAfterFailure_OtherInput(e, t) ==
  IF Retries(e)
  THEN [Released(e, "Failed") EXCEPT
          ![<<executions[e].currentStepName,
              executions[e].currentStepAttempt + 1>>] =
            NewStep(CHOOSE i \in Inputs : TRUE, t, None)]
  ELSE Released(e, "Failed")

\* Mutant: the failed attempt's row is not written back.
StepsAfterFailure_NotReleased(e, t) ==
  IF Retries(e)
  THEN [steps[e] EXCEPT
          ![<<executions[e].currentStepName,
              executions[e].currentStepAttempt + 1>>] =
            NewStep(steps[e][CurrentSlot(e)].input, t, None)]
  ELSE Released(e, "Failed")

StepsAfterFailure(e, t) ==
  IF Retries(e)
  THEN [Released(e, "Failed") EXCEPT
          ![<<executions[e].currentStepName,
              executions[e].currentStepAttempt + 1>>] =
            NewStep(steps[e][CurrentSlot(e)].input, t, None)]
  ELSE Released(e, "Failed")

-----------------------------------------------------------------------------
(* The operations.                                                         *)

RegisterWorkflowDefinition(w, d) ==
  /\ definitions' = [definitions EXCEPT ![w] = d]
  /\ UNCHANGED <<executions, singletonLocks, steps, now>>

\* Mutant: the lock is taken without looking at its holder.
SingletonFree_Unchecked(w) == w \in Workflows

\* A singleton workflow starts only when its lock is free or points at an
\* execution that no longer runs, and then takes the lock.
SingletonFree(w) == singletonLocks[w] # None => ~IsRunning(singletonLocks[w])

StartWorkflow(w, e, input) ==
  /\ definitions[w] # None
  /\ executions[e] = None
  /\ definitions[w].singleton => SingletonFree(w)
  /\ singletonLocks' = IF definitions[w].singleton
                       THEN [singletonLocks EXCEPT ![w] = e]
                       ELSE singletonLocks
  /\ executions' = [executions EXCEPT ![e] =
       [workflow |-> w, status |-> "Running",
        currentStepName |-> definitions[w].start, currentStepAttempt |-> 0]]
  /\ \E t \in ClockReadings :
       steps' = [steps EXCEPT ![e][<<definitions[w].start, 0>>] =
                   NewStep(input, t, None)]
  /\ UNCHANGED <<definitions, now>>

\* Mutant: the newest claimable rows are returned.
IsBatch_NewestFirst(batch, w, t, maxResults) ==
  /\ batch \subseteq Claimable(w, t)
  /\ Cardinality(batch) <= maxResults
  /\ Cardinality(batch) < maxResults => batch = Claimable(w, t)
  /\ \A p \in batch, q \in Claimable(w, t) \ batch :
       steps[p[1]][p[2]].createdAt >= steps[q[1]][q[2]].createdAt

\* A batch a poll may return: the oldest claimable rows, as many as asked for.
\* Rows of equal age are ordered by their random execution identifier.
IsBatch(batch, w, t, maxResults) ==
  /\ batch \subseteq Claimable(w, t)
  /\ Cardinality(batch) <= maxResults
  /\ Cardinality(batch) < maxResults => batch = Claimable(w, t)
  /\ \A p \in batch, q \in Claimable(w, t) \ batch :
       steps[p[1]][p[2]].createdAt <= steps[q[1]][q[2]].createdAt

\* The whole poll throws when one step of the batch has no lease duration.
PollAndClaimWorkflowSteps(w, worker, maxResults) ==
  /\ definitions[w] # None
  /\ \E t \in ClockReadings : \E batch \in SUBSET Claimable(w, t) :
       /\ IsBatch(batch, w, t, maxResults)
       /\ \A p \in batch : HasLease(p[1], p[2][1])
       /\ \A p \in batch : t + DefinitionOf(p[1]).steps[p[2][1]].lease \in Time
       /\ batch # {}
       /\ steps' = [e \in Executions |-> [k \in Slots |->
            IF <<e, k>> \in batch
            THEN Claimed(steps[e][k], worker,
                         t + DefinitionOf(e).steps[k[1]].lease)
            ELSE steps[e][k]]]
  /\ UNCHANGED <<definitions, executions, singletonLocks, now>>

KeepAliveStep(e, s, w) ==
  \E t \in ClockReadings, u \in ClockReadings :
    /\ t <= u
    /\ MayReport(e, s, w, t)
    /\ HasLease(e, s)
    /\ u + DefinitionOf(e).steps[s].lease \in Time
    /\ steps' = [steps EXCEPT ![e][CurrentSlot(e)].leaseExpiresAt =
                   u + DefinitionOf(e).steps[s].lease]
    /\ UNCHANGED <<definitions, executions, singletonLocks, now>>

\* completeStep when WorkflowLogic decides that the workflow is complete.
CompleteWorkflow(e, s, w) ==
  \E t \in ClockReadings :
    /\ MayReport(e, s, w, t)
    /\ executions' = [executions EXCEPT ![e].status = "Completed"]
    /\ steps' = [steps EXCEPT ![e] = Released(e, "Completed")]
    /\ UNCHANGED <<definitions, singletonLocks, now>>

\* completeStep when it names a next step, which must be defined.  The rows of
\* an earlier visit of that step are overwritten from attempt 0 on.
CompleteStep(e, s, w, next, nextStepInput, delay) ==
  \E t \in ClockReadings, u \in ClockReadings :
    /\ t <= u
    /\ MayReport(e, s, w, t)
    /\ StepDefined(e, next)
    /\ delay # None => u + delay \in Time
    /\ executions' = [executions EXCEPT ![e].currentStepName = next,
                                        ![e].currentStepAttempt = 0]
    /\ steps' = [steps EXCEPT ![e] =
         [Released(e, "Completed") EXCEPT ![<<next, 0>>] =
            NewStep(nextStepInput, u,
                    IF delay = None THEN None ELSE u + delay)]]
    /\ UNCHANGED <<definitions, singletonLocks, now>>

FailStep(e, s, w) ==
  \E t \in ClockReadings, u \in ClockReadings :
    /\ t <= u
    /\ MayReport(e, s, w, t)
    /\ StepDefined(e, s)
    /\ executions' = [executions EXCEPT ![e] = ExecutionAfterFailure(e)]
    /\ steps' = [steps EXCEPT ![e] = StepsAfterFailure(e, u)]
    /\ UNCHANGED <<definitions, singletonLocks, now>>

CanceledRow(row) ==
  [row EXCEPT !.status = "Canceled", !.workerId = None, !.leaseExpiresAt = None]

\* Mutant: a claimed step survives the cancellation.
CanceledSteps_PendingOnly(e) ==
  [k \in Slots |-> IF Has(e, k, {"Pending"}) THEN CanceledRow(steps[e][k])
                                             ELSE steps[e][k]]

CanceledSteps(e) ==
  [k \in Slots |-> IF Active(e, k) THEN CanceledRow(steps[e][k])
                                   ELSE steps[e][k]]

CancelWorkflow(e) ==
  /\ IsRunning(e)
  /\ executions' = [executions EXCEPT ![e].status = "Canceled"]
  /\ steps' = [steps EXCEPT ![e] = CanceledSteps(e)]
  /\ UNCHANGED <<definitions, singletonLocks, now>>

\* Mutant: a sweep passes over an attempt that has no retry left.
Due_OnlyRetried(t) ==
  {e \in Executions :
     /\ IsRunning(e)
     /\ Has(e, CurrentSlot(e), {"Running"})
     /\ steps[e][CurrentSlot(e)].leaseExpiresAt # None
     /\ steps[e][CurrentSlot(e)].leaseExpiresAt <= t
     /\ DefinitionOf(e) # None
     /\ StepDefined(e, executions[e].currentStepName) => Retries(e)}

\* The executions a sweep acts on: their current attempt's lease has expired.
Due(t) ==
  {e \in Executions :
     /\ IsRunning(e)
     /\ Has(e, CurrentSlot(e), {"Running"})
     /\ steps[e][CurrentSlot(e)].leaseExpiresAt # None
     /\ steps[e][CurrentSlot(e)].leaseExpiresAt <= t
     /\ DefinitionOf(e) # None}

\* The whole sweep throws when one due step is no longer defined.  The clock is
\* read once to find what is due, and once for every row a retry adds.
SweepExpiredLeases ==
  \E t \in ClockReadings :
    /\ Due(t) # {}
    /\ \A e \in Due(t) : StepDefined(e, executions[e].currentStepName)
    /\ executions' = [e \in Executions |->
         IF e \in Due(t) THEN ExecutionAfterFailure(e) ELSE executions[e]]
    /\ \E u \in [Due(t) -> ClockReadings] :
         /\ \A e \in Due(t) : t <= u[e]
         /\ steps' = [e \in Executions |->
              IF e \in Due(t) THEN StepsAfterFailure(e, u[e]) ELSE steps[e]]
    /\ UNCHANGED <<definitions, singletonLocks, now>>

Tick ==
  /\ now < MaxTime
  /\ now' = now + 1
  /\ UNCHANGED <<definitions, executions, singletonLocks, steps>>

Register == \E w \in Workflows : \E d \in Definitions[w] :
  RegisterWorkflowDefinition(w, d)

Start == \E w \in Workflows, e \in Executions, input \in Inputs :
  StartWorkflow(w, e, input)

Poll == \E w \in Workflows, worker \in Workers, maxResults \in 1..MaxBatch :
  PollAndClaimWorkflowSteps(w, worker, maxResults)

\* A worker's report on a step it believes it holds.
Report(e, w) == \E s \in StepNames :
  \/ KeepAliveStep(e, s, w)
  \/ CompleteWorkflow(e, s, w)
  \/ \E next \in StepNames, input \in Inputs, delay \in Delays \cup {None} :
       CompleteStep(e, s, w, next, input, delay)
  \/ FailStep(e, s, w)

Next ==
  \/ Register
  \/ Start
  \/ Poll
  \/ \E e \in Executions, w \in Workers : Report(e, w)
  \/ \E e \in Executions : CancelWorkflow(e)
  \/ SweepExpiredLeases
  \/ Tick

Spec == Init /\ [][Next]_vars

-----------------------------------------------------------------------------
(* Properties.                                                             *)

\* The execution and step tables agree (they are written separately by every
\* operation): the current attempt of an execution has a row whose status
\* matches the execution's, and no other row of the execution can be claimed
\* or swept.  A poll never looks at the execution, so it relies on this.
CurrentStatus(status) ==
  IF status = "Running" THEN {"Pending", "Running"} ELSE {status}

OneActiveStep ==
  \A e \in Executions : executions[e] # None =>
    /\ Has(e, CurrentSlot(e), CurrentStatus(executions[e].status))
    /\ \A k \in Slots \ {CurrentSlot(e)} : ~Active(e, k)

\* The attempts before the current one all failed and all ran on the input the
\* current one has, whoever failed them (failStep or a sweep) and whatever an
\* earlier visit of the step left in the table.
RetryChain ==
  \A e \in Executions : executions[e] # None =>
    \A a \in 0..(executions[e].currentStepAttempt - 1) :
      LET k == <<executions[e].currentStepName, a>>
      IN  /\ Has(e, k, {"Failed"})
          /\ steps[e][k].input = steps[e][CurrentSlot(e)].input

\* A failed execution has used every retry its step definition grants, and no
\* execution is at an attempt beyond them.
RetriesExhausted ==
  \A e \in Executions : executions[e] # None =>
    LET d == DefinitionOf(e)
        s == executions[e].currentStepName
    IN  /\ executions[e].currentStepAttempt <= d.steps[s].maxRetries
        /\ executions[e].status = "Failed" =>
             executions[e].currentStepAttempt = d.steps[s].maxRetries

\* At most one execution of a singleton workflow runs.
SingletonExclusive ==
  \A w \in Workflows :
    definitions[w] # None /\ definitions[w].singleton =>
      \A e, f \in Executions :
        /\ IsRunning(e) /\ executions[e].workflow = w
        /\ IsRunning(f) /\ executions[f].workflow = w
        => e = f

\* An execution that is no longer running never changes, and neither does a
\* row of it: no late report, poll or sweep reaches it.
TerminalFrozen ==
  [][\A e \in Executions : executions[e] # None /\ ~IsRunning(e) =>
       executions'[e] = executions[e] /\ steps'[e] = steps[e]]_vars

\* While a claim's lease lasts, only its owner's reports and a cancellation
\* change the row.  A change that an owner's report makes might as well come from
\* a report of another worker that was let in, from a poll that hands the step
\* to its owner again, or from a sweep that fails it early: none of these can.
LeaseLive(e, k) == Has(e, k, {"Running"}) /\ steps[e][k].leaseExpiresAt > now

LiveLeaseRespected ==
  [][\A e \in Executions, k \in Slots :
       LeaseLive(e, k) /\ steps'[e][k] # steps[e][k] =>
         /\ Report(e, steps[e][k].workerId) \/ CancelWorkflow(e)
         /\ \A w \in Workers \ {steps[e][k].workerId} : ~Report(e, w)
         /\ ~Poll
         /\ ~SweepExpiredLeases]_vars

-----------------------------------------------------------------------------
(* What the orchestrator promises for each execution, WorkflowLifecycle,   *)
(* read off the execution row and the row of its current attempt.          *)

Life(e) ==
  IF executions[e] = None THEN None
  ELSE LET row == steps[e][CurrentSlot(e)]
       IN  [phase   |-> IF IsRunning(e) THEN row.status
                                        ELSE executions[e].status,
            step    |-> executions[e].currentStepName,
            attempt |-> executions[e].currentStepAttempt,
            holder  |-> IF row.status = "Running" THEN row.workerId ELSE None]

Lifecycle == INSTANCE WorkflowLifecycle
               WITH life <- [e \in Executions |-> Life(e)]

\* Every operation on the tables is a step of WorkflowLifecycle or changes
\* nothing it can see.
LifecycleSpec == Lifecycle!Spec

=============================================================================
