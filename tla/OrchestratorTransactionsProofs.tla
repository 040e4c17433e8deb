-------------------- MODULE OrchestratorTransactionsProofs --------------------
(* Machine-checked theorems about OrchestratorTransactions.                 *)
EXTENDS OrchestratorTransactions, OrchestratorProofs

-----------------------------------------------------------------------------
(* What each operation makes of the tables, with the clock read at t: the   *)
(* execution, lock and step tables become X, L and S.                       *)

StartMakes(w, e, t, X, L, S) ==
  \E input \in Inputs :
    /\ definitions[w] # None
    /\ executions[e] = None
    /\ definitions[w].singleton => SingletonFree(w)
    /\ X = [executions EXCEPT ![e] =
              [workflow |-> w, status |-> "Running",
               currentStepName |-> definitions[w].start, currentStepAttempt |-> 0]]
    /\ L = IF definitions[w].singleton THEN [singletonLocks EXCEPT ![w] = e]
                                       ELSE singletonLocks
    /\ S = [steps EXCEPT ![e] = [steps[e] EXCEPT
              ![<<definitions[w].start, 0>>] = NewStep(input, t, None)]]

\* The step table after a poll for worker has claimed a batch.
BatchClaimed(batch, worker, t) ==
  [e \in Executions |-> [k \in Slots |->
     IF <<e, k>> \in batch
     THEN Claimed(steps[e][k], worker, t + DefinitionOf(e).steps[k[1]].lease)
     ELSE steps[e][k]]]

PollMakes(batch, w, worker, t, X, L, S) ==
  /\ definitions[w] # None
  /\ batch \subseteq Claimable(w, t)
  /\ \E maxResults \in 1..MaxBatch : IsBatch(batch, w, t, maxResults)
  /\ \A p \in batch : HasLease(p[1], p[2][1])
  /\ \A p \in batch : t + DefinitionOf(p[1]).steps[p[2][1]].lease \in Time
  /\ batch # {}
  /\ X = executions /\ L = singletonLocks
  /\ S = BatchClaimed(batch, worker, t)

KeepAliveMakes(e, s, w, t, X, L, S) ==
  /\ MayReport(e, s, w, t)
  /\ HasLease(e, s)
  /\ t + DefinitionOf(e).steps[s].lease \in Time
  /\ X = executions /\ L = singletonLocks
  /\ S = [steps EXCEPT ![e] = [steps[e] EXCEPT ![CurrentSlot(e)] =
            [@ EXCEPT !.leaseExpiresAt = t + DefinitionOf(e).steps[s].lease]]]

CompleteWorkflowMakes(e, s, w, t, X, L, S) ==
  /\ MayReport(e, s, w, t)
  /\ X = [executions EXCEPT ![e] = [executions[e] EXCEPT !.status = "Completed"]]
  /\ L = singletonLocks
  /\ S = [steps EXCEPT ![e] = Released(e, "Completed")]

CompleteStepMakes(e, s, w, next, input, delay, t, X, L, S) ==
  /\ MayReport(e, s, w, t)
  /\ StepDefined(e, next)
  /\ delay # None => t + delay \in Time
  /\ X = [executions EXCEPT ![e] = [executions[e] EXCEPT
            !.currentStepName = next, !.currentStepAttempt = 0]]
  /\ L = singletonLocks
  /\ S = [steps EXCEPT ![e] = [Released(e, "Completed") EXCEPT ![<<next, 0>>] =
            NewStep(input, t, IF delay = None THEN None ELSE t + delay)]]

FailStepMakes(e, s, w, t, X, L, S) ==
  /\ MayReport(e, s, w, t)
  /\ StepDefined(e, s)
  /\ X = [executions EXCEPT ![e] = ExecutionAfterFailure(e)]
  /\ L = singletonLocks
  /\ S = [steps EXCEPT ![e] = StepsAfterFailure(e, t)]

CancelMakes(e, X, L, S) ==
  /\ IsRunning(e)
  /\ X = [executions EXCEPT ![e] = [executions[e] EXCEPT !.status = "Canceled"]]
  /\ L = singletonLocks
  /\ S = [steps EXCEPT ![e] = CanceledSteps(e)]

SweepMakes(t, X, L, S) ==
  /\ Due(t) # {}
  /\ \A e \in Due(t) : StepDefined(e, executions[e].currentStepName)
  /\ X = [e \in Executions |->
            IF e \in Due(t) THEN ExecutionAfterFailure(e) ELSE executions[e]]
  /\ L = singletonLocks
  /\ S = [e \in Executions |->
            IF e \in Due(t) THEN StepsAfterFailure(e, t) ELSE steps[e]]

\* The transaction's tables are the tables.
Mirrored ==
  txExecutions = executions /\ txSingletonLocks = singletonLocks /\ txSteps = steps

-----------------------------------------------------------------------------
(* What a transaction makes of the tables it sees.                          *)

LEMMA InTxReads ==
  ASSUME Mirrored, now \in Time
  PROVE  /\ \A t : t \in InTx!ClockReadings <=> t = now
         /\ \A e \in Executions :
              /\ InTx!IsRunning(e) <=> IsRunning(e)
              /\ InTx!CurrentSlot(e) = CurrentSlot(e)
              /\ InTx!DefinitionOf(e) = DefinitionOf(e)
         /\ \A e \in Executions, s \in StepNames :
              /\ InTx!StepDefined(e, s) <=> StepDefined(e, s)
              /\ InTx!HasLease(e, s) <=> HasLease(e, s)
         /\ \A e \in Executions : \A s, w, t :
              InTx!MayReport(e, s, w, t) <=> MayReport(e, s, w, t)
<1>1. ASSUME NEW t PROVE t \in InTx!ClockReadings <=> t = now
  BY BoundsAssumption DEF InTx!ClockReadings, InTx!Time, Time
<1>2. ASSUME NEW e \in Executions
      PROVE  /\ InTx!IsRunning(e) <=> IsRunning(e)
             /\ InTx!CurrentSlot(e) = CurrentSlot(e)
             /\ InTx!DefinitionOf(e) = DefinitionOf(e)
  BY DEF Mirrored, InTx!IsRunning, IsRunning, InTx!CurrentSlot, CurrentSlot,
         InTx!DefinitionOf, DefinitionOf
<1>3. ASSUME NEW e \in Executions, NEW s \in StepNames
      PROVE  /\ InTx!StepDefined(e, s) <=> StepDefined(e, s)
             /\ InTx!HasLease(e, s) <=> HasLease(e, s)
  BY <1>2 DEF InTx!StepDefined, StepDefined, InTx!HasLease, HasLease
<1>4. ASSUME NEW e \in Executions, NEW s, NEW w, NEW t
      PROVE  InTx!MayReport(e, s, w, t) <=> MayReport(e, s, w, t)
  BY <1>2 DEF Mirrored, InTx!MayReport, MayReport, InTx!OwnsClaim, OwnsClaim
<1> QED BY <1>1, <1>2, <1>3, <1>4

LEMMA InTxStart ==
  ASSUME Mirrored, now \in Time, NEW w \in Workflows, NEW e \in Executions,
         NEW input \in Inputs, InTx!StartWorkflow(w, e, input)
  PROVE  StartMakes(w, e, now, txExecutions', txSingletonLocks', txSteps')
<1>1. InTx!SingletonFree(w) <=> SingletonFree(w)
  BY DEF Mirrored, InTx!SingletonFree, SingletonFree, InTx!IsRunning, IsRunning
<1>2. txSteps' = [steps EXCEPT ![e] = [steps[e] EXCEPT
                    ![<<definitions[w].start, 0>>] = NewStep(input, now, None)]]
  BY InTxReads DEF Mirrored, InTx!StartWorkflow, InTx!NewStep, NewStep
<1> QED BY <1>1, <1>2 DEF Mirrored, InTx!StartWorkflow, StartMakes

LEMMA InTxPoll ==
  ASSUME Mirrored, TypeOK, NEW w \in Workflows, NEW worker \in Workers,
         NEW maxResults \in 1..MaxBatch,
         InTx!PollAndClaimWorkflowSteps(w, worker, maxResults)
  PROVE  \E batch : PollMakes(batch, w, worker, now,
                              txExecutions', txSingletonLocks', txSteps')
<1>0. now \in Time
  BY DEF TypeOK
<1>1. InTx!Claimable(w, now) = Claimable(w, now)
  BY DEF Mirrored, InTx!Claimable, Claimable, InTx!IsClaimable, IsClaimable,
         InTx!Slots, Slots, InTx!Attempts, Attempts
<1>2. PICK batch \in SUBSET Claimable(w, now) :
        /\ InTx!IsBatch(batch, w, now, maxResults)
        /\ \A p \in batch : InTx!HasLease(p[1], p[2][1])
        /\ \A p \in batch :
             now + InTx!DefinitionOf(p[1]).steps[p[2][1]].lease \in InTx!Time
        /\ batch # {}
        /\ txSteps' = [e \in Executions |-> [k \in InTx!Slots |->
             IF <<e, k>> \in batch
             THEN InTx!Claimed(txSteps[e][k], worker,
                          now + InTx!DefinitionOf(e).steps[k[1]].lease)
             ELSE txSteps[e][k]]]
  BY <1>0, <1>1, InTxReads DEF InTx!PollAndClaimWorkflowSteps
<1>3. IsBatch(batch, w, now, maxResults)
  <2>1. InTx!Cardinality(batch) = Cardinality(batch)
    BY DEF InTx!Cardinality, Cardinality, InTx!IsFiniteSet, IsFiniteSet
  <2> QED BY <1>1, <1>2, <2>1 DEF Mirrored, InTx!IsBatch, IsBatch
<1>4. \A p \in batch : p[1] \in Executions /\ p[2][1] \in StepNames
  BY DEF Claimable, Slots
<1>5. /\ \A p \in batch : HasLease(p[1], p[2][1])
      /\ \A p \in batch : now + DefinitionOf(p[1]).steps[p[2][1]].lease \in Time
  BY <1>0, <1>2, <1>4, InTxReads DEF InTx!Time, Time
<1>6. InTx!Slots = Slots
  BY DEF InTx!Slots, Slots, InTx!Attempts, Attempts
<1>7. \A e \in Executions, k \in Slots :
        InTx!Claimed(txSteps[e][k], worker,
                     now + InTx!DefinitionOf(e).steps[k[1]].lease)
          = Claimed(steps[e][k], worker, now + DefinitionOf(e).steps[k[1]].lease)
  BY <1>0, InTxReads DEF Mirrored, InTx!Claimed, Claimed
<1>8. txSteps' = BatchClaimed(batch, worker, now)
  BY <1>2, <1>6, <1>7 DEF Mirrored, BatchClaimed
<1> QED BY <1>2, <1>3, <1>5, <1>8
        DEF Mirrored, PollMakes, InTx!PollAndClaimWorkflowSteps

LEMMA InTxFailure ==
  ASSUME Mirrored, now \in Time, NEW e \in Executions
  PROVE  /\ InTx!ExecutionAfterFailure(e) = ExecutionAfterFailure(e)
         /\ InTx!StepsAfterFailure(e, now) = StepsAfterFailure(e, now)
         /\ \A status : InTx!Released(e, status) = Released(e, status)
<1>1. InTx!Retries(e) <=> Retries(e)
  BY DEF Mirrored, InTx!Retries, Retries, InTx!DefinitionOf, DefinitionOf
<1>2. \A status : InTx!Released(e, status) = Released(e, status)
  BY InTxReads
     DEF Mirrored, InTx!Released, Released, InTx!ReleasedRow, ReleasedRow
<1> QED BY <1>1, <1>2, InTxReads
        DEF Mirrored, InTx!ExecutionAfterFailure, ExecutionAfterFailure,
            InTx!StepsAfterFailure, StepsAfterFailure, InTx!NewStep, NewStep

LEMMA InTxKeepAlive ==
  ASSUME Mirrored, now \in Time, NEW e \in Executions, NEW s \in StepNames,
         NEW w \in Workers, InTx!KeepAliveStep(e, s, w)
  PROVE  KeepAliveMakes(e, s, w, now, txExecutions', txSingletonLocks', txSteps')
<1>1. /\ InTx!MayReport(e, s, w, now)
      /\ InTx!HasLease(e, s)
      /\ now + InTx!DefinitionOf(e).steps[s].lease \in InTx!Time
      /\ txSteps' = [txSteps EXCEPT ![e][InTx!CurrentSlot(e)].leaseExpiresAt =
                       now + InTx!DefinitionOf(e).steps[s].lease]
      /\ txExecutions' = txExecutions /\ txSingletonLocks' = txSingletonLocks
  BY InTxReads DEF InTx!KeepAliveStep
<1> QED BY <1>1, InTxReads DEF Mirrored, KeepAliveMakes, InTx!Time, Time

LEMMA InTxCompleteWorkflow ==
  ASSUME Mirrored, now \in Time, NEW e \in Executions, NEW s \in StepNames,
         NEW w \in Workers, InTx!CompleteWorkflow(e, s, w)
  PROVE  CompleteWorkflowMakes(e, s, w, now,
                               txExecutions', txSingletonLocks', txSteps')
BY InTxReads, InTxFailure
   DEF Mirrored, InTx!CompleteWorkflow, CompleteWorkflowMakes

LEMMA InTxCompleteStep ==
  ASSUME Mirrored, now \in Time, NEW e \in Executions, NEW s \in StepNames,
         NEW w \in Workers, NEW next \in StepNames, NEW input \in Inputs,
         NEW delay \in Delays \cup {None},
         InTx!CompleteStep(e, s, w, next, input, delay)
  PROVE  CompleteStepMakes(e, s, w, next, input, delay, now,
                           txExecutions', txSingletonLocks', txSteps')
<1>1. /\ InTx!MayReport(e, s, w, now)
      /\ InTx!StepDefined(e, next)
      /\ delay # None => now + delay \in InTx!Time
      /\ txExecutions' = [txExecutions EXCEPT ![e].currentStepName = next,
                                              ![e].currentStepAttempt = 0]
      /\ txSteps' = [txSteps EXCEPT ![e] =
           [InTx!Released(e, "Completed") EXCEPT ![<<next, 0>>] =
              InTx!NewStep(input, now,
                           IF delay = None THEN None ELSE now + delay)]]
      /\ txSingletonLocks' = txSingletonLocks
  BY InTxReads DEF InTx!CompleteStep
<1>2. txExecutions' = [executions EXCEPT ![e] = [executions[e] EXCEPT
                         !.currentStepName = next, !.currentStepAttempt = 0]]
  BY <1>1 DEF Mirrored
<1>3. txSteps' = [steps EXCEPT ![e] = [Released(e, "Completed") EXCEPT
        ![<<next, 0>>] =
           NewStep(input, now, IF delay = None THEN None ELSE now + delay)]]
  BY <1>1, InTxFailure DEF Mirrored, InTx!NewStep, NewStep
<1> QED BY <1>1, <1>2, <1>3, InTxReads
        DEF Mirrored, CompleteStepMakes, InTx!Time, Time

LEMMA InTxFailStep ==
  ASSUME Mirrored, now \in Time, NEW e \in Executions, NEW s \in StepNames,
         NEW w \in Workers, InTx!FailStep(e, s, w)
  PROVE  FailStepMakes(e, s, w, now, txExecutions', txSingletonLocks', txSteps')
<1>1. /\ InTx!MayReport(e, s, w, now)
      /\ InTx!StepDefined(e, s)
      /\ txExecutions' = [txExecutions EXCEPT ![e] =
                            InTx!ExecutionAfterFailure(e)]
      /\ txSteps' = [txSteps EXCEPT ![e] = InTx!StepsAfterFailure(e, now)]
      /\ txSingletonLocks' = txSingletonLocks
  BY InTxReads DEF InTx!FailStep
<1> QED BY <1>1, InTxReads, InTxFailure DEF Mirrored, FailStepMakes

LEMMA InTxCancel ==
  ASSUME Mirrored, now \in Time, NEW e \in Executions, InTx!CancelWorkflow(e)
  PROVE  CancelMakes(e, txExecutions', txSingletonLocks', txSteps')
<1>1. InTx!CanceledSteps(e) = CanceledSteps(e)
  BY DEF Mirrored, InTx!CanceledSteps, CanceledSteps, InTx!Active, Active,
         InTx!Has, Has, InTx!CanceledRow, CanceledRow, InTx!Slots, Slots,
         InTx!Attempts, Attempts
<1> QED BY <1>1, InTxReads DEF Mirrored, InTx!CancelWorkflow, CancelMakes

LEMMA InTxSweep ==
  ASSUME Mirrored, TypeOK, InTx!SweepExpiredLeases
  PROVE  SweepMakes(now, txExecutions', txSingletonLocks', txSteps')
<1>0. now \in Time
  BY DEF TypeOK
<1>1. InTx!Due(now) = Due(now)
  BY <1>0, InTxReads DEF Mirrored, InTx!Due, Due, InTx!Has, Has
<1>2. /\ InTx!Due(now) # {}
      /\ \A e \in InTx!Due(now) :
           InTx!StepDefined(e, txExecutions[e].currentStepName)
      /\ txExecutions' = [e \in Executions |->
           IF e \in InTx!Due(now) THEN InTx!ExecutionAfterFailure(e)
                                  ELSE txExecutions[e]]
      /\ txSteps' = [e \in Executions |->
           IF e \in InTx!Due(now) THEN InTx!StepsAfterFailure(e, now)
                                  ELSE txSteps[e]]
      /\ txSingletonLocks' = txSingletonLocks
  <2>1. PICK t \in InTx!ClockReadings :
          /\ InTx!Due(t) # {}
          /\ \A e \in InTx!Due(t) :
               InTx!StepDefined(e, txExecutions[e].currentStepName)
          /\ txExecutions' = [e \in Executions |->
               IF e \in InTx!Due(t) THEN InTx!ExecutionAfterFailure(e)
                                    ELSE txExecutions[e]]
          /\ \E u \in [InTx!Due(t) -> InTx!ClockReadings] :
               txSteps' = [e \in Executions |->
                 IF e \in InTx!Due(t) THEN InTx!StepsAfterFailure(e, u[e])
                                      ELSE txSteps[e]]
          /\ txSingletonLocks' = txSingletonLocks
    BY DEF InTx!SweepExpiredLeases
  <2>2. t = now
    BY <1>0, <2>1, InTxReads
  <2>3. PICK u \in [InTx!Due(now) -> InTx!ClockReadings] :
          txSteps' = [e \in Executions |->
            IF e \in InTx!Due(now) THEN InTx!StepsAfterFailure(e, u[e])
                                   ELSE txSteps[e]]
    BY <2>1, <2>2
  <2>4. \A e \in InTx!Due(now) : u[e] = now
    BY <1>0, <2>3, InTxReads
  <2> QED BY <2>1, <2>2, <2>3, <2>4
<1>3. \A e \in Due(now) : e \in Executions
                          /\ executions[e].currentStepName \in StepNames
  BY CurrentSlotType DEF Due, IsRunning
<1>4. \A e \in Due(now) : StepDefined(e, executions[e].currentStepName)
  BY <1>0, <1>1, <1>2, <1>3, InTxReads DEF Mirrored
<1>5. txExecutions' = [e \in Executions |->
        IF e \in Due(now) THEN ExecutionAfterFailure(e) ELSE executions[e]]
  BY <1>0, <1>1, <1>2, InTxFailure DEF Mirrored
<1>6. txSteps' = [e \in Executions |->
        IF e \in Due(now) THEN StepsAfterFailure(e, now) ELSE steps[e]]
  BY <1>0, <1>1, <1>2, InTxFailure DEF Mirrored
<1> QED BY <1>1, <1>2, <1>4, <1>5, <1>6 DEF Mirrored, SweepMakes

-----------------------------------------------------------------------------
(* A draft: the rows a transaction has put, and what the tables become when *)
(* it commits.                                                              *)

Draft ==
  [executions |-> tx.executions, locks |-> tx.locks, steps |-> tx.steps,
   executionRows |-> txExecutions, lockRows |-> txSingletonLocks,
   stepRows |-> txSteps]

PutExecutions(d) ==
  [e \in Executions |-> IF e \in d.executions THEN d.executionRows[e]
                                              ELSE executions[e]]
PutLocks(d) ==
  [w \in Workflows |-> IF w \in d.locks THEN d.lockRows[w]
                                        ELSE singletonLocks[w]]
PutSteps(d) ==
  [e \in Executions |-> [k \in Slots |->
     IF <<e, k>> \in d.steps THEN d.stepRows[e][k] ELSE steps[e][k]]]

\* The slots of e a failure puts.
FailureSlots(e) ==
  IF Retries(e)
  THEN {CurrentSlot(e), <<executions[e].currentStepName,
                          executions[e].currentStepAttempt + 1>>}
  ELSE {CurrentSlot(e)}

PutsOnly(d, keys) ==
  \A e \in Executions, k \in Slots : <<e, k>> \in d.steps => <<e, k>> \in keys

\* With its draft committed now, each operation does what it does in one step.

StartDraft(w, e, t, d) ==
  /\ StartMakes(w, e, t, PutExecutions(d), PutLocks(d), PutSteps(d))
  /\ d.executions \subseteq {e}
  /\ d.locks \subseteq {w} /\ (~definitions[w].singleton => d.locks = {})
  /\ PutsOnly(d, {<<e, <<definitions[w].start, 0>>>>})

PollDraft(batch, w, worker, t, d) ==
  /\ PollMakes(batch, w, worker, t, PutExecutions(d), PutLocks(d), PutSteps(d))
  /\ d.executions = {} /\ d.locks = {}
  /\ PutsOnly(d, batch)

KeepAliveDraft(e, s, w, t, d) ==
  /\ KeepAliveMakes(e, s, w, t, PutExecutions(d), PutLocks(d), PutSteps(d))
  /\ d.executions = {} /\ d.locks = {}
  /\ PutsOnly(d, {<<e, CurrentSlot(e)>>})

CompleteWorkflowDraft(e, s, w, t, d) ==
  /\ CompleteWorkflowMakes(e, s, w, t,
                           PutExecutions(d), PutLocks(d), PutSteps(d))
  /\ d.executions \subseteq {e} /\ d.locks = {}
  /\ PutsOnly(d, {<<e, CurrentSlot(e)>>})

CompleteStepDraft(e, s, w, next, input, delay, t, d) ==
  /\ CompleteStepMakes(e, s, w, next, input, delay, t,
                       PutExecutions(d), PutLocks(d), PutSteps(d))
  /\ d.executions \subseteq {e} /\ d.locks = {}
  /\ PutsOnly(d, {<<e, CurrentSlot(e)>>, <<e, <<next, 0>>>>})

FailStepDraft(e, s, w, t, d) ==
  /\ FailStepMakes(e, s, w, t, PutExecutions(d), PutLocks(d), PutSteps(d))
  /\ d.executions \subseteq {e} /\ d.locks = {}
  /\ PutsOnly(d, {<<e, k>> : k \in FailureSlots(e)})

ReportDraft(e, w, t, d) == \E s \in StepNames :
  \/ KeepAliveDraft(e, s, w, t, d)
  \/ CompleteWorkflowDraft(e, s, w, t, d)
  \/ \E next \in StepNames, input \in Inputs, delay \in Delays \cup {None} :
       CompleteStepDraft(e, s, w, next, input, delay, t, d)
  \/ FailStepDraft(e, s, w, t, d)

CancelDraft(e, d) ==
  /\ CancelMakes(e, PutExecutions(d), PutLocks(d), PutSteps(d))
  /\ d.executions \subseteq {e} /\ d.locks = {}
  /\ PutsOnly(d, {e} \X Slots)

SweepDraft(t, d) ==
  /\ SweepMakes(t, PutExecutions(d), PutLocks(d), PutSteps(d))
  /\ d.executions \subseteq Due(t) /\ d.locks = {}
  /\ \A e \in Executions, k \in Slots : <<e, k>> \in d.steps =>
       e \in Due(t) /\ k \in FailureSlots(e)

Pending(op, t, d) ==
  \/ op.type = "start" /\ StartDraft(op.workflow, op.execution, t, d)
  \/ /\ op.type = "poll"
     /\ \E batch \in SUBSET StepKeys :
          PollDraft(batch, op.workflow, op.worker, t, d)
  \/ op.type = "report" /\ ReportDraft(op.execution, op.worker, t, d)
  \/ op.type = "cancel" /\ CancelDraft(op.execution, d)
  \/ op.type = "sweep" /\ SweepDraft(t, d)

\* The inductive invariant: the tables are well typed and agree, and whenever
\* the slow transaction is open, to commit it now is to take its operation now.
Committable ==
  \E op \in {tx.operation}, t \in {tx.readAt}, d \in {Draft} : Pending(op, t, d)

TransactionInv ==
  /\ TransactionTypeOK
  /\ TablesAgree
  /\ tx = None => Mirrored
  /\ tx # None => Committable

-----------------------------------------------------------------------------
(* What commits beside the slow transaction is a step of Orchestrator.      *)

LEMMA OthersReads ==
  ASSUME now \in Time
  PROVE  \A t \in Others!ClockReadings : t \in ClockReadings
<1> SUFFICES ASSUME NEW t \in Others!ClockReadings PROVE t \in ClockReadings
  OBVIOUS
<1>1. t \in Time /\ t <= now /\ now <= t + MaxLagBeside
  BY DEF Others!ClockReadings, Others!Time, Time
<1>2. t \in Int /\ now \in Int /\ MaxLagBeside \in Int /\ MaxClockLag \in Int
  BY <1>1, LagAssumption, BoundsAssumption DEF Time
<1>3. MaxLagBeside <= MaxClockLag
  BY <1>2, LagAssumption
<1> QED BY <1>1, <1>2, <1>3 DEF ClockReadings

LEMMA OthersState ==
  /\ Others!Slots = Slots /\ Others!Time = Time
  /\ \A e \in Executions :
       /\ Others!IsRunning(e) <=> IsRunning(e)
       /\ Others!CurrentSlot(e) = CurrentSlot(e)
       /\ Others!DefinitionOf(e) = DefinitionOf(e)
       /\ Others!ExecutionAfterFailure(e) = ExecutionAfterFailure(e)
       /\ Others!CanceledSteps(e) = CanceledSteps(e)
  /\ \A e \in Executions : \A s :
       /\ Others!StepDefined(e, s) <=> StepDefined(e, s)
       /\ Others!HasLease(e, s) <=> HasLease(e, s)
       /\ Others!Released(e, s) = Released(e, s)
       /\ Others!StepsAfterFailure(e, s) = StepsAfterFailure(e, s)
  /\ \A e \in Executions : \A s, w, t :
       Others!MayReport(e, s, w, t) <=> MayReport(e, s, w, t)
  /\ \A t : Others!Due(t) = Due(t)
  /\ \A input, t, at : Others!NewStep(input, t, at) = NewStep(input, t, at)
<1>1. Others!Slots = Slots /\ Others!Time = Time
  BY DEF Others!Slots, Slots, Others!Attempts, Attempts, Others!Time, Time
<1>2. \A e \in Executions :
        /\ Others!IsRunning(e) <=> IsRunning(e)
        /\ Others!CurrentSlot(e) = CurrentSlot(e)
        /\ Others!DefinitionOf(e) = DefinitionOf(e)
        /\ \A k : Others!Active(e, k) <=> Active(e, k)
  BY DEF Others!IsRunning, IsRunning, Others!CurrentSlot, CurrentSlot,
         Others!DefinitionOf, DefinitionOf, Others!Active, Active,
         Others!Has, Has
<1>3. \A e \in Executions : \A s :
        /\ Others!StepDefined(e, s) <=> StepDefined(e, s)
        /\ Others!HasLease(e, s) <=> HasLease(e, s)
  BY <1>2 DEF Others!StepDefined, StepDefined, Others!HasLease, HasLease
<1>4. \A e \in Executions : \A s : Others!Released(e, s) = Released(e, s)
  BY <1>2 DEF Others!Released, Released, Others!ReleasedRow, ReleasedRow
<1>5. \A input, t, at : Others!NewStep(input, t, at) = NewStep(input, t, at)
  BY DEF Others!NewStep, NewStep
<1>6. \A e \in Executions : Others!Retries(e) <=> Retries(e)
  BY <1>2 DEF Others!Retries, Retries
<1>7. \A e \in Executions :
        /\ Others!ExecutionAfterFailure(e) = ExecutionAfterFailure(e)
        /\ \A t : Others!StepsAfterFailure(e, t) = StepsAfterFailure(e, t)
  BY <1>2, <1>4, <1>5, <1>6
     DEF Others!ExecutionAfterFailure, ExecutionAfterFailure,
         Others!StepsAfterFailure, StepsAfterFailure
<1>8. \A e \in Executions : Others!CanceledSteps(e) = CanceledSteps(e)
  BY <1>1, <1>2 DEF Others!CanceledSteps, CanceledSteps,
                    Others!CanceledRow, CanceledRow
<1>9. \A e \in Executions : \A s, w, t :
        Others!MayReport(e, s, w, t) <=> MayReport(e, s, w, t)
  BY <1>2 DEF Others!MayReport, MayReport, Others!OwnsClaim, OwnsClaim
<1>10. \A t : Others!Due(t) = Due(t)
  BY <1>2, <1>3 DEF Others!Due, Due, Others!Has, Has
<1> QED BY <1>1, <1>2, <1>3, <1>4, <1>5, <1>7, <1>8, <1>9, <1>10

LEMMA OthersReport ==
  ASSUME now \in Time, NEW e \in Executions, NEW w \in Workers,
         Others!Report(e, w)
  PROVE  Report(e, w)
<1> PICK s \in StepNames :
      \/ Others!KeepAliveStep(e, s, w)
      \/ Others!CompleteWorkflow(e, s, w)
      \/ \E next \in StepNames, input \in Inputs, delay \in Delays \cup {None} :
           Others!CompleteStep(e, s, w, next, input, delay)
      \/ Others!FailStep(e, s, w)
  BY DEF Others!Report
<1>1. CASE Others!KeepAliveStep(e, s, w)
  <2>1. KeepAliveStep(e, s, w)
    BY <1>1, OthersReads, OthersState DEF Others!KeepAliveStep, KeepAliveStep
  <2> QED BY <2>1 DEF Report
<1>2. CASE Others!CompleteWorkflow(e, s, w)
  <2>1. CompleteWorkflow(e, s, w)
    BY <1>2, OthersReads, OthersState
       DEF Others!CompleteWorkflow, CompleteWorkflow
  <2> QED BY <2>1 DEF Report
<1>3. ASSUME NEW next \in StepNames, NEW input \in Inputs,
             NEW delay \in Delays \cup {None},
             Others!CompleteStep(e, s, w, next, input, delay)
      PROVE  Report(e, w)
  <2>1. CompleteStep(e, s, w, next, input, delay)
    BY <1>3, OthersReads, OthersState DEF Others!CompleteStep, CompleteStep
  <2> QED BY <2>1 DEF Report
<1>4. CASE Others!FailStep(e, s, w)
  <2>1. FailStep(e, s, w)
    BY <1>4, OthersReads, OthersState DEF Others!FailStep, FailStep
  <2> QED BY <2>1 DEF Report
<1> QED BY <1>1, <1>2, <1>3, <1>4

LEMMA OthersStep ==
  ASSUME TypeOK, Others!Next
  PROVE  Next
<1>0. now \in Time
  BY DEF TypeOK
<1>1. CASE Others!Register
  BY <1>1 DEF Others!Register, Register, Others!RegisterWorkflowDefinition,
              RegisterWorkflowDefinition, Next
<1>2. CASE Others!Start
  <2>1. PICK w \in Workflows, e \in Executions, input \in Inputs :
          Others!StartWorkflow(w, e, input)
    BY <1>2 DEF Others!Start
  <2>2. Others!SingletonFree(w) <=> SingletonFree(w)
    BY DEF Others!SingletonFree, SingletonFree, Others!IsRunning, IsRunning
  <2>3. StartWorkflow(w, e, input)
    BY <1>0, <2>1, <2>2, OthersReads, OthersState
       DEF Others!StartWorkflow, StartWorkflow
  <2> QED BY <2>3 DEF Start, Next
<1>3. CASE Others!Poll
  <2>1. PICK w \in Workflows, worker \in Workers, maxResults \in 1..MaxBatch :
          Others!PollAndClaimWorkflowSteps(w, worker, maxResults)
    BY <1>3 DEF Others!Poll
  <2>2. ASSUME NEW t
        PROVE  /\ Others!Claimable(w, t) = Claimable(w, t)
               /\ \A batch : Others!IsBatch(batch, w, t, maxResults)
                               <=> IsBatch(batch, w, t, maxResults)
    <3>1. Others!Claimable(w, t) = Claimable(w, t)
      BY OthersState DEF Others!Claimable, Claimable, Others!IsClaimable,
                         IsClaimable
    <3>2. \A batch : Others!Cardinality(batch) = Cardinality(batch)
      BY DEF Others!Cardinality, Cardinality, Others!IsFiniteSet, IsFiniteSet
    <3> QED BY <3>1, <3>2 DEF Others!IsBatch, IsBatch
  <2>3. PICK t \in Others!ClockReadings : \E b \in SUBSET Claimable(w, t) :
          /\ IsBatch(b, w, t, maxResults)
          /\ \A p \in b : Others!HasLease(p[1], p[2][1])
          /\ \A p \in b :
               t + Others!DefinitionOf(p[1]).steps[p[2][1]].lease \in Time
          /\ b # {}
          /\ steps' = [e \in Executions |-> [k \in Slots |->
               IF <<e, k>> \in b
               THEN Others!Claimed(steps[e][k], worker,
                            t + Others!DefinitionOf(e).steps[k[1]].lease)
               ELSE steps[e][k]]]
    BY <2>1, <2>2, OthersState DEF Others!PollAndClaimWorkflowSteps
  <2>4. PICK batch \in SUBSET Claimable(w, t) :
          /\ IsBatch(batch, w, t, maxResults)
          /\ \A p \in batch : Others!HasLease(p[1], p[2][1])
          /\ \A p \in batch :
               t + Others!DefinitionOf(p[1]).steps[p[2][1]].lease \in Time
          /\ batch # {}
          /\ steps' = [e \in Executions |-> [k \in Slots |->
               IF <<e, k>> \in batch
               THEN Others!Claimed(steps[e][k], worker,
                            t + Others!DefinitionOf(e).steps[k[1]].lease)
               ELSE steps[e][k]]]
    BY <2>3
  <2>5. \A p \in batch : p[1] \in Executions /\ p[2][1] \in StepNames
    BY DEF Claimable, Slots
  <2>6. \A e \in Executions, k \in Slots :
          Others!Claimed(steps[e][k], worker,
                         t + Others!DefinitionOf(e).steps[k[1]].lease)
            = Claimed(steps[e][k], worker, t + DefinitionOf(e).steps[k[1]].lease)
    BY OthersState DEF Others!Claimed, Claimed
  <2>7. steps' = [e \in Executions |-> [k \in Slots |->
          IF <<e, k>> \in batch
          THEN Claimed(steps[e][k], worker,
                       t + DefinitionOf(e).steps[k[1]].lease)
          ELSE steps[e][k]]]
    BY <2>4, <2>6
  <2>8. /\ \A p \in batch : HasLease(p[1], p[2][1])
        /\ \A p \in batch : t + DefinitionOf(p[1]).steps[p[2][1]].lease \in Time
    BY <2>4, <2>5, OthersState
  <2>9. /\ definitions[w] # None
        /\ UNCHANGED <<definitions, executions, singletonLocks, now>>
        /\ t \in ClockReadings
    BY <1>0, <2>1, OthersReads DEF Others!PollAndClaimWorkflowSteps
  <2>10. PollAndClaimWorkflowSteps(w, worker, maxResults)
    BY <2>4, <2>7, <2>8, <2>9 DEF PollAndClaimWorkflowSteps
  <2> QED BY <2>10 DEF Poll, Next
<1>4. CASE \E e \in Executions, w \in Workers : Others!Report(e, w)
  BY <1>0, <1>4, OthersReport DEF Next
<1>5. CASE \E e \in Executions : Others!CancelWorkflow(e)
  BY <1>5, OthersState DEF Others!CancelWorkflow, CancelWorkflow, Next
<1>6. CASE Others!SweepExpiredLeases
  <2>1. \A t : \A e \in Due(t) : e \in Executions
    BY DEF Due
  <2>2. PICK t \in Others!ClockReadings :
          /\ Due(t) # {}
          /\ \A e \in Due(t) : StepDefined(e, executions[e].currentStepName)
          /\ executions' = [e \in Executions |->
               IF e \in Due(t) THEN ExecutionAfterFailure(e) ELSE executions[e]]
          /\ \E u \in [Due(t) -> Others!ClockReadings] :
               /\ \A e \in Due(t) : t <= u[e]
               /\ steps' = [e \in Executions |->
                    IF e \in Due(t) THEN StepsAfterFailure(e, u[e])
                                    ELSE steps[e]]
          /\ UNCHANGED <<definitions, singletonLocks, now>>
    BY <1>6, <2>1, OthersState DEF Others!SweepExpiredLeases
  <2>3. [Due(t) -> Others!ClockReadings] \subseteq [Due(t) -> ClockReadings]
    BY <1>0, OthersReads
  <2>4. SweepExpiredLeases
    BY <1>0, <2>2, <2>3, OthersReads DEF SweepExpiredLeases
  <2> QED BY <2>4 DEF Next
<1>7. CASE Others!Tick
  BY <1>7 DEF Others!Tick, Tick, Next
<1> QED BY <1>1, <1>2, <1>3, <1>4, <1>5, <1>6, <1>7 DEF Others!Next

-----------------------------------------------------------------------------
(* What an operation makes of well-typed tables is well typed.              *)

TableTypes(X, L, S) ==
  /\ X \in [Executions -> ExecutionRow \cup {None}]
  /\ L \in [Workflows -> Executions \cup {None}]
  /\ S \in [Executions -> StepRows]

LEMMA StartTypes ==
  ASSUME TypeOK, NEW w \in Workflows, NEW e \in Executions, NEW t \in Time,
         NEW X, NEW L, NEW S, StartMakes(w, e, t, X, L, S)
  PROVE  /\ TableTypes(X, L, S)
         /\ X[e] # None
         /\ <<definitions[w].start, 0>> \in Slots
         /\ S[e][<<definitions[w].start, 0>>] # None
<1> DEFINE k == <<definitions[w].start, 0>>
<1>1. definitions[w] \in Definition
  BY DEF TypeOK, StartMakes
<1>2. definitions[w].start \in StepNames /\ 0 \in Attempts
  BY <1>1, BoundsAssumption DEF Definition, Attempts
<1>3. k \in Slots
  BY <1>2 DEF Slots
<1>4. PICK input \in Inputs :
        S = [steps EXCEPT ![e] = [steps[e] EXCEPT ![k] = NewStep(input, t, None)]]
  BY DEF StartMakes
<1>5. NewStep(input, t, None) \in StepRow /\ NewStep(input, t, None) # None
  BY NewStepRow
<1>6. steps \in [Executions -> StepRows]
  BY DEF TypeOK, StepRows
<1>7. [steps[e] EXCEPT ![k] = NewStep(input, t, None)] \in StepRows
  BY <1>3, <1>5, <1>6 DEF StepRows
<1>8. S \in [Executions -> StepRows] /\ S[e][k] # None
  BY <1>3, <1>4, <1>5, <1>6, <1>7 DEF StepRows
<1> DEFINE x == [workflow |-> w, status |-> "Running",
                 currentStepName |-> definitions[w].start,
                 currentStepAttempt |-> 0]
<1>9. x \in ExecutionRow /\ x # None
  BY <1>2, NoneAssumption DEF ExecutionRow, ExecutionStatus
<1>10. X = [executions EXCEPT ![e] = x]
  BY DEF StartMakes
<1>11. X \in [Executions -> ExecutionRow \cup {None}] /\ X[e] # None
  BY <1>9, <1>10 DEF TypeOK
<1>12. L \in [Workflows -> Executions \cup {None}]
  BY DEF TypeOK, StartMakes
<1> QED BY <1>3, <1>8, <1>11, <1>12 DEF TableTypes

LEMMA PollTypes ==
  ASSUME TypeOK, NEW w \in Workflows, NEW worker \in Workers, NEW t,
         NEW batch, NEW X, NEW L, NEW S, PollMakes(batch, w, worker, t, X, L, S)
  PROVE  TableTypes(X, L, S)
<1>1. ASSUME NEW e \in Executions, NEW k \in Slots, <<e, k>> \in batch
      PROVE  Claimed(steps[e][k], worker, t + DefinitionOf(e).steps[k[1]].lease)
               \in StepRow
  <2>1. steps[e][k] \in StepRow
    BY <1>1 DEF PollMakes, Claimable, TypeOK
  <2>2. t + DefinitionOf(e).steps[k[1]].lease \in Time
    BY <1>1 DEF PollMakes
  <2> QED BY <2>1, <2>2, ClaimedRow
<1>2. S \in [Executions -> StepRows]
  BY <1>1 DEF PollMakes, BatchClaimed, TypeOK, StepRows
<1> QED BY <1>2 DEF TableTypes, PollMakes, TypeOK

\* A report has an execution, a definition and a claimed row.
LEMMA ReporterFacts ==
  ASSUME TypeOK, NEW e \in Executions, NEW s, NEW w, NEW t,
         MayReport(e, s, w, t)
  PROVE  /\ executions[e] \in ExecutionRow /\ executions[e] # None
         /\ executions[e].currentStepName = s
         /\ DefinitionOf(e) # None
         /\ CurrentSlot(e) \in Slots
         /\ steps[e][CurrentSlot(e)] \in StepRow
         /\ steps[e][CurrentSlot(e)] # None
BY CurrentSlotType DEF MayReport, IsRunning, TypeOK

LEMMA KeepAliveTypes ==
  ASSUME TypeOK, NEW e \in Executions, NEW s, NEW w, NEW t, NEW X, NEW L, NEW S,
         KeepAliveMakes(e, s, w, t, X, L, S)
  PROVE  TableTypes(X, L, S)
<1> DEFINE c == CurrentSlot(e)
           row == [steps[e][c] EXCEPT
                     !.leaseExpiresAt = t + DefinitionOf(e).steps[s].lease]
<1>1. c \in Slots /\ steps[e][c] \in StepRow
  BY ReporterFacts DEF KeepAliveMakes
<1>2. row \in StepRow
  BY <1>1 DEF KeepAliveMakes, StepRow
<1>3. S = [steps EXCEPT ![e] = [steps[e] EXCEPT ![c] = row]]
  BY DEF KeepAliveMakes
<1>4. S \in [Executions -> StepRows]
  BY <1>1, <1>2, <1>3 DEF TypeOK, StepRows
<1> QED BY <1>4 DEF TableTypes, KeepAliveMakes, TypeOK

LEMMA CompleteWorkflowTypes ==
  ASSUME TypeOK, NEW e \in Executions, NEW s, NEW w, NEW t, NEW X, NEW L, NEW S,
         CompleteWorkflowMakes(e, s, w, t, X, L, S)
  PROVE  TableTypes(X, L, S)
<1>1. /\ executions[e] \in ExecutionRow /\ executions[e] # None
      /\ steps[e][CurrentSlot(e)] # None
  BY ReporterFacts DEF CompleteWorkflowMakes
<1>2. Released(e, "Completed") \in StepRows
  BY <1>1, ReleasedFacts DEF StepStatus
<1>3. [executions[e] EXCEPT !.status = "Completed"] \in ExecutionRow
  BY <1>1 DEF ExecutionRow, ExecutionStatus
<1> QED BY <1>2, <1>3 DEF TableTypes, CompleteWorkflowMakes, TypeOK, StepRows

LEMMA CompleteStepTypes ==
  ASSUME TypeOK, NEW e \in Executions, NEW s, NEW w, NEW t \in Time,
         NEW next \in StepNames, NEW input \in Inputs,
         NEW delay \in Delays \cup {None}, NEW X, NEW L, NEW S,
         CompleteStepMakes(e, s, w, next, input, delay, t, X, L, S)
  PROVE  /\ TableTypes(X, L, S)
         /\ <<next, 0>> \in Slots
         /\ S[e][<<next, 0>>] # None
         /\ S[e][<<next, 0>>].status = "Pending"
<1> DEFINE at == IF delay = None THEN None ELSE t + delay
           row == NewStep(input, t, at)
           k == <<next, 0>>
<1>1. /\ executions[e] \in ExecutionRow /\ executions[e] # None
      /\ steps[e][CurrentSlot(e)] # None
  BY ReporterFacts DEF CompleteStepMakes
<1>2. Released(e, "Completed") \in StepRows
  BY <1>1, ReleasedFacts DEF StepStatus
<1>3. at \in Time \cup {None}
  BY DEF CompleteStepMakes
<1>4. row \in StepRow /\ row # None /\ row.status = "Pending"
  BY <1>3, NewStepRow
<1>5. 0 \in Attempts /\ k \in Slots
  BY BoundsAssumption DEF Attempts, Slots
<1>6. [executions[e] EXCEPT !.currentStepName = next, !.currentStepAttempt = 0]
        \in ExecutionRow
  BY <1>1, <1>5 DEF ExecutionRow
<1>7. S = [steps EXCEPT ![e] = [Released(e, "Completed") EXCEPT ![k] = row]]
  BY DEF CompleteStepMakes
<1>8. /\ S \in [Executions -> StepRows]
      /\ S[e][k] = row
  BY <1>2, <1>4, <1>5, <1>7 DEF TypeOK, StepRows
<1> QED BY <1>4, <1>5, <1>6, <1>8 DEF TableTypes, CompleteStepMakes, TypeOK

LEMMA FailStepTypes ==
  ASSUME TypeOK, NEW e \in Executions, NEW s, NEW w, NEW t \in Time,
         NEW X, NEW L, NEW S, FailStepMakes(e, s, w, t, X, L, S)
  PROVE  TableTypes(X, L, S)
<1>1. /\ executions[e] # None /\ steps[e][CurrentSlot(e)] # None
      /\ DefinitionOf(e) # None /\ executions[e].currentStepName = s
  BY ReporterFacts DEF FailStepMakes
<1>2. /\ ExecutionAfterFailure(e) \in ExecutionRow
      /\ StepsAfterFailure(e, t) \in StepRows
  BY <1>1, FailureFacts, BoundsAssumption, NoneAssumption DEF FailStepMakes
<1> QED BY <1>2 DEF TableTypes, FailStepMakes, TypeOK, StepRows

\* The slots a cancellation leaves.
LEMMA CanceledTypes ==
  ASSUME TypeOK, NEW e \in Executions
  PROVE  CanceledSteps(e) \in StepRows
<1>1. ASSUME NEW k \in Slots PROVE CanceledSteps(e)[k] \in StepRow \cup {None}
  <2>1. CASE Active(e, k)
    <3>1. steps[e][k] \in StepRow
      BY <2>1 DEF TypeOK, Active, Has
    <3> QED BY <2>1, <3>1, CanceledRowFacts DEF CanceledSteps
  <2>2. CASE ~Active(e, k)
    BY <2>2 DEF CanceledSteps, TypeOK
  <2> QED BY <2>1, <2>2
<1> QED BY <1>1 DEF CanceledSteps, StepRows

LEMMA CancelTypes ==
  ASSUME TypeOK, NEW e \in Executions, NEW X, NEW L, NEW S,
         CancelMakes(e, X, L, S)
  PROVE  TableTypes(X, L, S)
<1>1. executions[e] \in ExecutionRow
  BY CurrentSlotType DEF CancelMakes, IsRunning
<1>2. [executions[e] EXCEPT !.status = "Canceled"] \in ExecutionRow
  BY <1>1 DEF ExecutionRow, ExecutionStatus
<1> QED BY <1>2, CanceledTypes DEF TableTypes, CancelMakes, TypeOK, StepRows

LEMMA DueFacts ==
  ASSUME TypeOK, NEW t, NEW e \in Due(t)
  PROVE  /\ e \in Executions /\ executions[e] # None
         /\ executions[e] \in ExecutionRow
         /\ CurrentSlot(e) \in Slots
         /\ steps[e][CurrentSlot(e)] # None
         /\ steps[e][CurrentSlot(e)].status = "Running"
         /\ DefinitionOf(e) # None
BY CurrentSlotType DEF Due, IsRunning, Has

LEMMA SweepTypes ==
  ASSUME TypeOK, NEW t \in Time, NEW X, NEW L, NEW S, SweepMakes(t, X, L, S)
  PROVE  TableTypes(X, L, S)
<1>1. ASSUME NEW e \in Due(t)
      PROVE  /\ ExecutionAfterFailure(e) \in ExecutionRow
             /\ StepsAfterFailure(e, t) \in StepRows
  BY <1>1, DueFacts, FailureFacts, BoundsAssumption, NoneAssumption
     DEF SweepMakes
<1> QED BY <1>1 DEF TableTypes, SweepMakes, TypeOK, StepRows

-----------------------------------------------------------------------------
(* A transaction that has just run has drafted its operation.               *)

\* Draft d puts the rows in which the tables X, L and S differ from the tables.
Puts(d, X, L, S) ==
  /\ d.executions = {e \in Executions : X[e] # executions[e]}
  /\ d.locks = {w \in Workflows : L[w] # singletonLocks[w]}
  /\ d.steps = {p \in StepKeys : S[p[1]][p[2]] # steps[p[1]][p[2]]}
  /\ d.executionRows = X /\ d.lockRows = L /\ d.stepRows = S

LEMMA DraftMerges ==
  ASSUME TypeOK, NEW X, NEW L, NEW S, TableTypes(X, L, S),
         NEW d, Puts(d, X, L, S)
  PROVE  PutExecutions(d) = X /\ PutLocks(d) = L /\ PutSteps(d) = S
<1>1. PutExecutions(d) = X
  BY DEF PutExecutions, Puts, TableTypes
<1>2. PutLocks(d) = L
  BY DEF PutLocks, Puts, TableTypes
<1>3. PutSteps(d) = S
  <2>1. S = [e \in Executions |-> [k \in Slots |-> S[e][k]]]
    BY DEF TableTypes, StepRows
  <2>2. ASSUME NEW e \in Executions, NEW k \in Slots
        PROVE  (IF <<e, k>> \in d.steps THEN d.stepRows[e][k] ELSE steps[e][k])
                 = S[e][k]
    BY DEF Puts, StepKeys
  <2> QED BY <2>1, <2>2 DEF PutSteps
<1> QED BY <1>1, <1>2, <1>3

LEMMA StartDrafted ==
  ASSUME TypeOK, NEW w \in Workflows, NEW e \in Executions, NEW t \in Time,
         NEW X, NEW L, NEW S, StartMakes(w, e, t, X, L, S),
         NEW d, Puts(d, X, L, S)
  PROVE  StartDraft(w, e, t, d)
<1>1. /\ TableTypes(X, L, S)
      /\ PutExecutions(d) = X /\ PutLocks(d) = L /\ PutSteps(d) = S
  BY StartTypes, DraftMerges
<1>2. d.executions \subseteq {e}
  BY DEF Puts, StartMakes, TypeOK
<1>3. d.locks \subseteq {w} /\ (~definitions[w].singleton => d.locks = {})
  BY DEF Puts, StartMakes, TypeOK
<1>4. PutsOnly(d, {<<e, <<definitions[w].start, 0>>>>})
  BY DEF PutsOnly, Puts, StepKeys, StartMakes, TypeOK
<1> QED BY <1>1, <1>2, <1>3, <1>4 DEF StartDraft

LEMMA PollDrafted ==
  ASSUME TypeOK, NEW w \in Workflows, NEW worker \in Workers, NEW t \in Time,
         NEW batch, NEW X, NEW L, NEW S, PollMakes(batch, w, worker, t, X, L, S),
         NEW d, Puts(d, X, L, S)
  PROVE  /\ batch \in SUBSET StepKeys
         /\ PollDraft(batch, w, worker, t, d)
<1>1. /\ TableTypes(X, L, S)
      /\ PutExecutions(d) = X /\ PutLocks(d) = L /\ PutSteps(d) = S
  BY PollTypes, DraftMerges
<1>2. d.executions = {} /\ d.locks = {}
  BY DEF Puts, PollMakes
<1>3. PutsOnly(d, batch)
  BY DEF PutsOnly, Puts, StepKeys, PollMakes, BatchClaimed
<1>4. batch \in SUBSET StepKeys
  BY DEF PollMakes, Claimable, StepKeys
<1> QED BY <1>1, <1>2, <1>3, <1>4 DEF PollDraft

LEMMA KeepAliveDrafted ==
  ASSUME TypeOK, NEW e \in Executions, NEW s, NEW w, NEW t,
         NEW X, NEW L, NEW S, KeepAliveMakes(e, s, w, t, X, L, S),
         NEW d, Puts(d, X, L, S)
  PROVE  KeepAliveDraft(e, s, w, t, d)
<1>1. /\ TableTypes(X, L, S)
      /\ PutExecutions(d) = X /\ PutLocks(d) = L /\ PutSteps(d) = S
  BY KeepAliveTypes, DraftMerges
<1>2. d.executions = {} /\ d.locks = {}
  BY DEF Puts, KeepAliveMakes
<1>3. PutsOnly(d, {<<e, CurrentSlot(e)>>})
  BY DEF PutsOnly, Puts, StepKeys, KeepAliveMakes, TypeOK
<1> QED BY <1>1, <1>2, <1>3 DEF KeepAliveDraft

LEMMA CompleteWorkflowDrafted ==
  ASSUME TypeOK, NEW e \in Executions, NEW s, NEW w, NEW t,
         NEW X, NEW L, NEW S, CompleteWorkflowMakes(e, s, w, t, X, L, S),
         NEW d, Puts(d, X, L, S)
  PROVE  CompleteWorkflowDraft(e, s, w, t, d)
<1>1. /\ TableTypes(X, L, S)
      /\ PutExecutions(d) = X /\ PutLocks(d) = L /\ PutSteps(d) = S
  BY CompleteWorkflowTypes, DraftMerges
<1>2. d.executions \subseteq {e} /\ d.locks = {}
  BY DEF Puts, CompleteWorkflowMakes, TypeOK
<1>3. PutsOnly(d, {<<e, CurrentSlot(e)>>})
  BY DEF PutsOnly, Puts, StepKeys, CompleteWorkflowMakes, Released, TypeOK
<1> QED BY <1>1, <1>2, <1>3 DEF CompleteWorkflowDraft

LEMMA CompleteStepDrafted ==
  ASSUME TypeOK, NEW e \in Executions, NEW s, NEW w, NEW t \in Time,
         NEW next \in StepNames, NEW input \in Inputs,
         NEW delay \in Delays \cup {None}, NEW X, NEW L, NEW S,
         CompleteStepMakes(e, s, w, next, input, delay, t, X, L, S),
         NEW d, Puts(d, X, L, S)
  PROVE  CompleteStepDraft(e, s, w, next, input, delay, t, d)
<1>1. /\ TableTypes(X, L, S)
      /\ PutExecutions(d) = X /\ PutLocks(d) = L /\ PutSteps(d) = S
  BY CompleteStepTypes, DraftMerges
<1>2. d.executions \subseteq {e} /\ d.locks = {}
  BY DEF Puts, CompleteStepMakes, TypeOK
<1>3. PutsOnly(d, {<<e, CurrentSlot(e)>>, <<e, <<next, 0>>>>})
  BY DEF PutsOnly, Puts, StepKeys, CompleteStepMakes, Released, TypeOK
<1> QED BY <1>1, <1>2, <1>3 DEF CompleteStepDraft

\* The slots StepsAfterFailure leaves alone.
LEMMA FailureElsewhere ==
  ASSUME TypeOK, NEW e \in Executions, NEW t, NEW k \in Slots \ FailureSlots(e)
  PROVE  StepsAfterFailure(e, t)[k] = steps[e][k]
<1>1. \A status : Released(e, status)[k] = steps[e][k]
  BY DEF Released, FailureSlots, TypeOK
<1>2. \A status : DOMAIN Released(e, status) = Slots
  BY DEF Released, TypeOK
<1> QED BY <1>1, <1>2 DEF StepsAfterFailure, FailureSlots

LEMMA FailStepDrafted ==
  ASSUME TypeOK, NEW e \in Executions, NEW s, NEW w, NEW t \in Time,
         NEW X, NEW L, NEW S, FailStepMakes(e, s, w, t, X, L, S),
         NEW d, Puts(d, X, L, S)
  PROVE  FailStepDraft(e, s, w, t, d)
<1>1. /\ TableTypes(X, L, S)
      /\ PutExecutions(d) = X /\ PutLocks(d) = L /\ PutSteps(d) = S
  BY FailStepTypes, DraftMerges
<1>2. d.executions \subseteq {e} /\ d.locks = {}
  BY DEF Puts, FailStepMakes, TypeOK
<1>3. S[e] = StepsAfterFailure(e, t)
      /\ \A f \in Executions \ {e} : S[f] = steps[f]
  BY DEF FailStepMakes, TypeOK
<1>4. PutsOnly(d, {<<e, k>> : k \in FailureSlots(e)})
  BY <1>3, FailureElsewhere DEF PutsOnly, Puts, StepKeys
<1> QED BY <1>1, <1>2, <1>4 DEF FailStepDraft

LEMMA CancelDrafted ==
  ASSUME TypeOK, NEW e \in Executions, NEW X, NEW L, NEW S,
         CancelMakes(e, X, L, S), NEW d, Puts(d, X, L, S)
  PROVE  CancelDraft(e, d)
<1>1. /\ TableTypes(X, L, S)
      /\ PutExecutions(d) = X /\ PutLocks(d) = L /\ PutSteps(d) = S
  BY CancelTypes, DraftMerges
<1>2. d.executions \subseteq {e} /\ d.locks = {}
  BY DEF Puts, CancelMakes, TypeOK
<1>3. PutsOnly(d, {e} \X Slots)
  BY DEF PutsOnly, Puts, StepKeys, CancelMakes, TypeOK
<1> QED BY <1>1, <1>2, <1>3 DEF CancelDraft

LEMMA SweepDrafted ==
  ASSUME TypeOK, NEW t \in Time, NEW X, NEW L, NEW S, SweepMakes(t, X, L, S),
         NEW d, Puts(d, X, L, S)
  PROVE  SweepDraft(t, d)
<1>1. /\ TableTypes(X, L, S)
      /\ PutExecutions(d) = X /\ PutLocks(d) = L /\ PutSteps(d) = S
  BY SweepTypes, DraftMerges
<1>2. d.executions \subseteq Due(t) /\ d.locks = {}
  BY DEF Puts, SweepMakes
<1>3. \A e \in Executions :
        S[e] = IF e \in Due(t) THEN StepsAfterFailure(e, t) ELSE steps[e]
  BY DEF SweepMakes
<1>4. ASSUME NEW e \in Executions, NEW k \in Slots, <<e, k>> \in d.steps
      PROVE  e \in Due(t) /\ k \in FailureSlots(e)
  <2>1. S[e][k] # steps[e][k]
    BY <1>4 DEF Puts
  <2> QED BY <1>3, <2>1, FailureElsewhere
<1> QED BY <1>1, <1>2, <1>4 DEF SweepDraft

LEMMA ReportDrafted ==
  ASSUME TypeOK, Mirrored, NEW e \in Executions, NEW w \in Workers,
         InTx!Report(e, w),
         NEW d, Puts(d, txExecutions', txSingletonLocks', txSteps')
  PROVE  /\ TableTypes(txExecutions', txSingletonLocks', txSteps')
         /\ ReportDraft(e, w, now, d)
<1> now \in Time
  BY DEF TypeOK
<1> PICK s \in StepNames :
      \/ InTx!KeepAliveStep(e, s, w)
      \/ InTx!CompleteWorkflow(e, s, w)
      \/ \E next \in StepNames, input \in Inputs, delay \in Delays \cup {None} :
           InTx!CompleteStep(e, s, w, next, input, delay)
      \/ InTx!FailStep(e, s, w)
  BY DEF InTx!Report
<1>1. CASE InTx!KeepAliveStep(e, s, w)
  BY <1>1, InTxKeepAlive, KeepAliveTypes, KeepAliveDrafted DEF ReportDraft
<1>2. CASE InTx!CompleteWorkflow(e, s, w)
  BY <1>2, InTxCompleteWorkflow, CompleteWorkflowTypes, CompleteWorkflowDrafted
     DEF ReportDraft
<1>3. ASSUME NEW next \in StepNames, NEW input \in Inputs,
             NEW delay \in Delays \cup {None},
             InTx!CompleteStep(e, s, w, next, input, delay)
      PROVE  /\ TableTypes(txExecutions', txSingletonLocks', txSteps')
             /\ ReportDraft(e, w, now, d)
  <2>1. CompleteStepMakes(e, s, w, next, input, delay, now,
                          txExecutions', txSingletonLocks', txSteps')
    BY <1>3, InTxCompleteStep
  <2>2. /\ TableTypes(txExecutions', txSingletonLocks', txSteps')
        /\ CompleteStepDraft(e, s, w, next, input, delay, now, d)
    BY <2>1, CompleteStepTypes, CompleteStepDrafted
  <2> QED BY <2>2 DEF ReportDraft
<1>4. CASE InTx!FailStep(e, s, w)
  BY <1>4, InTxFailStep, FailStepTypes, FailStepDrafted DEF ReportDraft
<1> QED BY <1>1, <1>2, <1>3, <1>4

LEMMA OperationDrafted ==
  ASSUME TypeOK, Mirrored, NEW op \in Operations, Perform(op),
         NEW d, Puts(d, txExecutions', txSingletonLocks', txSteps')
  PROVE  /\ TableTypes(txExecutions', txSingletonLocks', txSteps')
         /\ Pending(op, now, d)
<1> now \in Time
  BY DEF TypeOK
<1>1. CASE op.type = "start"
  <2>1. op.workflow \in Workflows /\ op.execution \in Executions
    BY <1>1 DEF Operations
  <2>2. PICK input \in Inputs :
          InTx!StartWorkflow(op.workflow, op.execution, input)
    BY <1>1 DEF Perform
  <2>3. StartMakes(op.workflow, op.execution, now,
                   txExecutions', txSingletonLocks', txSteps')
    BY <2>1, <2>2, InTxStart
  <2>4. /\ TableTypes(txExecutions', txSingletonLocks', txSteps')
        /\ StartDraft(op.workflow, op.execution, now, d)
    BY <2>1, <2>3, StartTypes, StartDrafted
  <2> QED BY <1>1, <2>4 DEF Pending
<1>2. CASE op.type = "poll"
  <2>1. op.workflow \in Workflows /\ op.worker \in Workers
    BY <1>2 DEF Operations
  <2>2. PICK maxResults \in 1..MaxBatch :
          InTx!PollAndClaimWorkflowSteps(op.workflow, op.worker, maxResults)
    BY <1>2 DEF Perform
  <2>3. PICK batch : PollMakes(batch, op.workflow, op.worker, now,
                               txExecutions', txSingletonLocks', txSteps')
    BY <2>1, <2>2, InTxPoll
  <2>4. /\ TableTypes(txExecutions', txSingletonLocks', txSteps')
        /\ batch \in SUBSET StepKeys
        /\ PollDraft(batch, op.workflow, op.worker, now, d)
    BY <2>1, <2>3, PollTypes, PollDrafted
  <2> QED BY <1>2, <2>4 DEF Pending
<1>3. CASE op.type = "report"
  <2>1. op.execution \in Executions /\ op.worker \in Workers
    BY <1>3 DEF Operations
  <2>2. InTx!Report(op.execution, op.worker)
    BY <1>3 DEF Perform
  <2> QED BY <1>3, <2>1, <2>2, ReportDrafted DEF Pending
<1>4. CASE op.type = "cancel"
  <2>1. op.execution \in Executions
    BY <1>4 DEF Operations
  <2>2. CancelMakes(op.execution, txExecutions', txSingletonLocks', txSteps')
    BY <1>4, <2>1, InTxCancel DEF Perform
  <2> QED BY <1>4, <2>1, <2>2, CancelTypes, CancelDrafted DEF Pending
<1>5. CASE op.type = "sweep"
  <2>1. SweepMakes(now, txExecutions', txSingletonLocks', txSteps')
    BY <1>5, InTxSweep DEF Perform
  <2> QED BY <1>5, <2>1, SweepTypes, SweepDrafted DEF Pending
<1> QED BY <1>1, <1>2, <1>3, <1>4, <1>5 DEF Operations

-----------------------------------------------------------------------------
(* A draft whose commit is its operation, taken in one step.                *)

LEMMA ReportTaken ==
  ASSUME NEW e \in Executions, NEW w \in Workers, NEW t \in ClockReadings,
         NEW d, ReportDraft(e, w, t, d), TypeOK,
         executions' = PutExecutions(d), singletonLocks' = PutLocks(d),
         steps' = PutSteps(d), UNCHANGED <<definitions, now>>
  PROVE  Report(e, w)
<1>0. t <= t
  BY ClockType DEF Time
<1> PICK s \in StepNames :
      \/ KeepAliveDraft(e, s, w, t, d)
      \/ CompleteWorkflowDraft(e, s, w, t, d)
      \/ \E next \in StepNames, input \in Inputs, delay \in Delays \cup {None} :
           CompleteStepDraft(e, s, w, next, input, delay, t, d)
      \/ FailStepDraft(e, s, w, t, d)
  BY DEF ReportDraft
<1>1. CASE KeepAliveDraft(e, s, w, t, d)
  <2>1. KeepAliveStep(e, s, w)
    BY <1>0, <1>1 DEF KeepAliveDraft, KeepAliveMakes, KeepAliveStep
  <2> QED BY <2>1 DEF Report
<1>2. CASE CompleteWorkflowDraft(e, s, w, t, d)
  <2>1. CompleteWorkflow(e, s, w)
    BY <1>2 DEF CompleteWorkflowDraft, CompleteWorkflowMakes, CompleteWorkflow
  <2> QED BY <2>1 DEF Report
<1>3. ASSUME NEW next \in StepNames, NEW input \in Inputs,
             NEW delay \in Delays \cup {None},
             CompleteStepDraft(e, s, w, next, input, delay, t, d)
      PROVE  Report(e, w)
  <2>1. executions' = [executions EXCEPT ![e].currentStepName = next,
                                         ![e].currentStepAttempt = 0]
    BY <1>3 DEF CompleteStepDraft, CompleteStepMakes, TypeOK
  <2>2. CompleteStep(e, s, w, next, input, delay)
    BY <1>0, <1>3, <2>1 DEF CompleteStepDraft, CompleteStepMakes, CompleteStep
  <2> QED BY <2>2 DEF Report
<1>4. CASE FailStepDraft(e, s, w, t, d)
  <2>1. FailStep(e, s, w)
    BY <1>0, <1>4 DEF FailStepDraft, FailStepMakes, FailStep
  <2> QED BY <2>1 DEF Report
<1> QED BY <1>1, <1>2, <1>3, <1>4

LEMMA OperationTaken ==
  ASSUME NEW op \in Operations, NEW t \in ClockReadings, NEW d,
         Pending(op, t, d), TypeOK,
         executions' = PutExecutions(d), singletonLocks' = PutLocks(d),
         steps' = PutSteps(d), UNCHANGED <<definitions, now>>
  PROVE  Next
<1>0. t <= t
  BY ClockType DEF Time
<1>1. CASE op.type = "start"
  <2>1. op.workflow \in Workflows /\ op.execution \in Executions
    BY <1>1 DEF Operations
  <2>2. StartDraft(op.workflow, op.execution, t, d)
    BY <1>1 DEF Pending
  <2>3. \E input \in Inputs : StartWorkflow(op.workflow, op.execution, input)
    BY <2>2 DEF StartDraft, StartMakes, StartWorkflow
  <2> QED BY <2>1, <2>3 DEF Start, Next
<1>2. CASE op.type = "poll"
  <2>1. op.workflow \in Workflows /\ op.worker \in Workers
    BY <1>2 DEF Operations
  <2>2. PICK batch \in SUBSET StepKeys :
          PollDraft(batch, op.workflow, op.worker, t, d)
    BY <1>2 DEF Pending
  <2>3. PICK maxResults \in 1..MaxBatch :
          IsBatch(batch, op.workflow, t, maxResults)
    BY <2>2 DEF PollDraft, PollMakes
  <2>4. PollAndClaimWorkflowSteps(op.workflow, op.worker, maxResults)
    BY <2>2, <2>3
       DEF PollDraft, PollMakes, BatchClaimed, PollAndClaimWorkflowSteps
  <2> QED BY <2>1, <2>4 DEF Poll, Next
<1>3. CASE op.type = "report"
  <2>1. op.execution \in Executions /\ op.worker \in Workers
    BY <1>3 DEF Operations
  <2>2. ReportDraft(op.execution, op.worker, t, d)
    BY <1>3 DEF Pending
  <2> QED BY <2>1, <2>2, ReportTaken DEF Next
<1>4. CASE op.type = "cancel"
  <2>1. op.execution \in Executions
    BY <1>4 DEF Operations
  <2>2. CancelWorkflow(op.execution)
    BY <1>4 DEF Pending, CancelDraft, CancelMakes, CancelWorkflow
  <2> QED BY <2>1, <2>2 DEF Next
<1>5. CASE op.type = "sweep"
  <2>1. SweepMakes(t, executions', singletonLocks', steps')
    BY <1>0, <1>5 DEF Pending, SweepDraft
  <2> DEFINE u == [e \in Due(t) |-> t]
  <2>2. /\ u \in [Due(t) -> ClockReadings]
        /\ \A e \in Due(t) : u[e] = t
    BY <1>0
  <2>3. t <= t
    BY <1>0 DEF ClockReadings, Time
  <2> HIDE DEF u
  <2>4. steps' = [e \in Executions |->
          IF e \in Due(t) THEN StepsAfterFailure(e, u[e]) ELSE steps[e]]
    BY <2>1, <2>2 DEF SweepMakes
  <2>5. SweepExpiredLeases
    BY <1>0, <2>1, <2>2, <2>3, <2>4 DEF SweepMakes, SweepExpiredLeases
  <2> QED BY <2>5 DEF Next
<1> QED BY <1>1, <1>2, <1>3, <1>4, <1>5 DEF Operations

-----------------------------------------------------------------------------
(* While what it has read stays as it was, a draft remains one that does    *)
(* what its operation would do now.                                         *)

\* Of e, the draft puts rows of the slots F only, and the others of F have not
\* changed: rows is what it was going to make of F, on what the rest is now.
Stays(d, e, F, rows) ==
  \A k \in Slots :
    /\ <<e, k>> \in d.steps => k \in F
    /\ k \in F => /\ <<e, k>> \notin d.steps => steps'[e][k] = steps[e][k]
                  /\ rows[k] = PutSteps(d)[e][k]
    /\ k \notin F => rows[k] = steps'[e][k]

LEMMA RowsStay ==
  ASSUME NEW d, NEW e \in Executions, NEW F, NEW rows \in StepRows,
         Stays(d, e, F, rows)
  PROVE  PutSteps(d)'[e] = rows
<1>1. \A k \in Slots : PutSteps(d)[e][k] =
        IF <<e, k>> \in d.steps THEN d.stepRows[e][k] ELSE steps[e][k]
  BY DEF PutSteps
<1>2. PutSteps(d)'[e] = [k \in Slots |->
        IF <<e, k>> \in d.steps THEN d.stepRows[e][k] ELSE steps'[e][k]]
  BY DEF PutSteps
<1>3. \A k \in Slots : rows[k] =
        IF <<e, k>> \in d.steps THEN d.stepRows[e][k] ELSE steps'[e][k]
  BY <1>1 DEF Stays
<1> QED BY <1>2, <1>3 DEF StepRows

LEMMA StepTableStays ==
  ASSUME TypeOK', NEW d, NEW e \in Executions,
         NEW rows \in StepRows, PutSteps(d)'[e] = rows,
         \A f \in Executions \ {e}, k \in Slots : <<f, k>> \notin d.steps
  PROVE  PutSteps(d)' = [steps' EXCEPT ![e] = rows]
<1>1. ASSUME NEW f \in Executions \ {e} PROVE PutSteps(d)'[f] = steps'[f]
  <2>1. PutSteps(d)'[f] = [k \in Slots |-> steps'[f][k]]
    BY DEF PutSteps
  <2>2. steps'[f] = [k \in Slots |-> steps'[f][k]]
    BY DEF TypeOK
  <2> QED BY <2>1, <2>2
<1>2. PutSteps(d)' = [f \in Executions |-> PutSteps(d)'[f]]
  BY DEF PutSteps
<1>3. steps' = [f \in Executions |-> steps'[f]]
  BY DEF TypeOK
<1> QED BY <1>1, <1>2, <1>3

LEMMA ExecutionTableStays ==
  ASSUME TypeOK', NEW d, NEW e \in Executions, d.executions \subseteq {e},
         executions'[e] = executions[e], NEW row, PutExecutions(d)[e] = row
  PROVE  PutExecutions(d)' = [executions' EXCEPT ![e] = row]
BY DEF PutExecutions, TypeOK

LEMMA UntouchedTablesStay ==
  ASSUME TypeOK', NEW d
  PROVE  /\ d.executions = {} => PutExecutions(d)' = executions'
         /\ d.locks = {} => PutLocks(d)' = singletonLocks'
BY DEF PutExecutions, PutLocks, TypeOK

LEMMA StartStays ==
  ASSUME TablesInv, TablesInv', NEW w \in Workflows, NEW e \in Executions,
         NEW t \in Time, NEW d, StartDraft(w, e, t, d),
         StartReads(w)' = StartReads(w), executions'[e] = None
  PROVE  StartDraft(w, e, t, d)'
<1> DEFINE k == <<definitions[w].start, 0>>
           x == [workflow |-> w, status |-> "Running",
                 currentStepName |-> definitions[w].start,
                 currentStepAttempt |-> 0]
<1>0. TypeOK /\ TypeOK'
  BY DEF TablesInv
<1>1. PICK input \in Inputs :
        /\ definitions[w] # None
        /\ executions[e] = None
        /\ definitions[w].singleton => SingletonFree(w)
        /\ PutExecutions(d) = [executions EXCEPT ![e] = x]
        /\ PutLocks(d) = IF definitions[w].singleton
                         THEN [singletonLocks EXCEPT ![w] = e]
                         ELSE singletonLocks
        /\ PutSteps(d) = [steps EXCEPT ![e] = [steps[e] EXCEPT
                            ![k] = NewStep(input, t, None)]]
  BY DEF StartDraft, StartMakes
<1>2. /\ PutExecutions(d)[e] # None /\ k \in Slots
      /\ PutSteps(d)[e][k] # None
  BY <1>0, StartTypes DEF StartDraft
<1>3. definitions'[w] = definitions[w]
  BY DEF StartReads
<1>4. definitions[w].singleton => singletonLocks'[w] = singletonLocks[w]
  BY <1>1, <1>3 DEF StartReads
<1>5. definitions[w].singleton => SingletonFree(w)'
  BY <1>1, <1>3, <1>4 DEF StartReads, SingletonFree, IsRunning
<1>6. PutExecutions(d)' = [executions' EXCEPT ![e] = x]
  <2>1. PICK row : row = x
    OBVIOUS
  <2>2. PutExecutions(d)[e] = row /\ executions'[e] = executions[e]
    BY <1>0, <1>1, <2>1 DEF TypeOK
  <2>3. d.executions \subseteq {e}
    BY DEF StartDraft
  <2> QED BY <1>0, <2>1, <2>2, <2>3, ExecutionTableStays
<1>7. PutLocks(d)' = IF definitions[w].singleton
                     THEN [singletonLocks' EXCEPT ![w] = e]
                     ELSE singletonLocks'
  <2>1. CASE definitions[w].singleton
    <3>1. PutLocks(d)[w] = e
      BY <1>0, <1>1, <2>1 DEF TypeOK
    <3>2. PutLocks(d)'[w] = e
      BY <1>4, <2>1, <3>1 DEF PutLocks
    <3> QED BY <1>0, <2>1, <3>2 DEF PutLocks, StartDraft, TypeOK
  <2>2. CASE ~definitions[w].singleton
    BY <1>0, <2>2, UntouchedTablesStay DEF StartDraft
  <2> QED BY <2>1, <2>2
<1>8. \A q \in Slots : steps[e][q] = None /\ steps'[e][q] = None
  BY <1>1 DEF TablesInv, TablesAgree, Agrees
<1> PICK rows : rows = [steps'[e] EXCEPT ![k] = NewStep(input, t, None)]
  OBVIOUS
<1>9. NewStep(input, t, None) \in StepRow
  BY NewStepRow
<1>10. rows \in StepRows
  BY <1>0, <1>2, <1>9 DEF TypeOK, StepRows
<1>11. PutSteps(d)[e][k] = NewStep(input, t, None) /\ rows[k] = PutSteps(d)[e][k]
  BY <1>0, <1>1, <1>2 DEF TypeOK
<1>12. \A q \in Slots \ {k} : rows[q] = steps'[e][q]
  BY <1>0 DEF TypeOK
<1>13. \A q \in Slots : <<e, q>> \in d.steps => q \in {k}
  BY DEF StartDraft, PutsOnly
<1>14. PutSteps(d)'[e] = rows
  <2>1. PICK F : F = {k}
    OBVIOUS
  <2>2. Stays(d, e, F, rows)
    BY <1>8, <1>11, <1>12, <1>13, <2>1 DEF Stays
  <2> QED BY <1>10, <2>2, RowsStay
<1>15. \A f \in Executions \ {e}, q \in Slots : <<f, q>> \notin d.steps
  BY DEF StartDraft, PutsOnly
<1>16. PutSteps(d)' = [steps' EXCEPT ![e] = rows]
  BY <1>0, <1>10, <1>14, <1>15, StepTableStays
<1>17. StartMakes(w, e, t, PutExecutions(d), PutLocks(d), PutSteps(d))'
  BY <1>1, <1>3, <1>5, <1>6, <1>7, <1>16 DEF StartMakes
<1>18. PutsOnly(d, {<<e, <<definitions[w].start, 0>>>>})'
  BY <1>3 DEF StartDraft, PutsOnly
<1> QED BY <1>3, <1>17, <1>18 DEF StartDraft

\* While a query by status returns the same, so do its rows.
LEMMA QueryStays ==
  ASSUME NEW w, NEW statuses,
         StepsInStatus(w, statuses)' = StepsInStatus(w, statuses),
         NEW e \in Executions, NEW k \in Slots,
         \/ Has(e, k, statuses) /\ (w = None \/ executions[e].workflow = w)
         \/ (Has(e, k, statuses) /\ (w = None \/ executions[e].workflow = w))'
  PROVE  /\ Has(e, k, statuses) /\ Has(e, k, statuses)'
         /\ w = None \/ executions[e].workflow = w
         /\ w = None \/ executions'[e].workflow = w
         /\ steps'[e][k] = steps[e][k]
<1>1. <<e, k>> \in StepKeys
  BY DEF StepKeys
<1>2. CASE Has(e, k, statuses) /\ (w = None \/ executions[e].workflow = w)
  <2>1. <<<<e, k>>, steps[e][k]>> \in StepsInStatus(w, statuses)
    BY <1>1, <1>2 DEF StepsInStatus
  <2>2. <<<<e, k>>, steps[e][k]>> \in StepsInStatus(w, statuses)'
    BY <2>1
  <2> QED BY <1>2, <2>2 DEF StepsInStatus
<1>3. CASE (Has(e, k, statuses) /\ (w = None \/ executions[e].workflow = w))'
  <2>1. <<<<e, k>>, steps'[e][k]>> \in StepsInStatus(w, statuses)'
    BY <1>1, <1>3 DEF StepsInStatus
  <2>2. <<<<e, k>>, steps'[e][k]>> \in StepsInStatus(w, statuses)
    BY <2>1
  <2> QED BY <1>3, <2>2 DEF StepsInStatus
<1> QED BY <1>2, <1>3

\* What is claimable follows from the two queries of a poll.
LEMMA ClaimableStays ==
  ASSUME TablesInv, TablesInv', NEW w \in Workflows, NEW t,
         PollReads(w)' = PollReads(w)
  PROVE  /\ Claimable(w, t)' = Claimable(w, t)
         /\ \A p \in Claimable(w, t) :
              /\ executions[p[1]].workflow = w /\ executions'[p[1]].workflow = w
              /\ steps'[p[1]][p[2]] = steps[p[1]][p[2]]
<1>1. /\ StepsInStatus(w, {"Pending"})' = StepsInStatus(w, {"Pending"})
      /\ StepsInStatus(w, {"Running"})' = StepsInStatus(w, {"Running"})
  BY DEF PollReads
<1>2. w # None
  BY NoneAssumption
<1>3. ASSUME NEW e \in Executions, NEW k \in Slots,
             \/ <<e, k>> \in Claimable(w, t)
             \/ <<e, k>> \in Claimable(w, t)'
      PROVE  /\ <<e, k>> \in Claimable(w, t) /\ <<e, k>> \in Claimable(w, t)'
             /\ executions[e].workflow = w /\ executions'[e].workflow = w
             /\ steps'[e][k] = steps[e][k]
  <2>1. PICK status \in {"Pending", "Running"} :
          \/ Has(e, k, {status}) /\ executions[e].workflow = w
          \/ (Has(e, k, {status}) /\ executions[e].workflow = w)'
    BY <1>3 DEF Claimable, IsClaimable, Has
  <2>2. StepsInStatus(w, {status})' = StepsInStatus(w, {status})
    BY <1>1
  <2>3. /\ Has(e, k, {status}) /\ Has(e, k, {status})'
        /\ executions[e].workflow = w /\ executions'[e].workflow = w
        /\ steps'[e][k] = steps[e][k]
    BY <1>2, <2>1, <2>2, QueryStays
  <2>4. executions[e] # None /\ executions'[e] # None
    BY <2>3 DEF TablesInv, TablesAgree, Agrees, Has
  <2> QED BY <1>3, <2>3, <2>4 DEF Claimable, Has
<1>4. ASSUME NEW p, p \in Claimable(w, t) \/ p \in Claimable(w, t)'
      PROVE  /\ p \in Claimable(w, t) /\ p \in Claimable(w, t)'
             /\ executions[p[1]].workflow = w /\ executions'[p[1]].workflow = w
             /\ steps'[p[1]][p[2]] = steps[p[1]][p[2]]
  <2>1. p \in Executions \X Slots
    BY <1>4 DEF Claimable
  <2>2. p[1] \in Executions /\ p[2] \in Slots /\ p = <<p[1], p[2]>>
    BY <2>1
  <2> QED BY <1>3, <1>4, <2>2
<1>5. Claimable(w, t)' = Claimable(w, t)
  BY <1>4
<1> QED BY <1>4, <1>5

LEMMA PollStays ==
  ASSUME TablesInv, TablesInv', NEW w \in Workflows, NEW worker \in Workers,
         NEW t, NEW batch, NEW d, PollDraft(batch, w, worker, t, d),
         PollReads(w)' = PollReads(w)
  PROVE  PollDraft(batch, w, worker, t, d)'
<1>0. TypeOK /\ TypeOK'
  BY DEF TablesInv
<1>1. PollMakes(batch, w, worker, t,
                PutExecutions(d), PutLocks(d), PutSteps(d))
  BY DEF PollDraft
<1>2. /\ Claimable(w, t)' = Claimable(w, t)
      /\ \A p \in Claimable(w, t) :
           /\ executions[p[1]].workflow = w /\ executions'[p[1]].workflow = w
           /\ steps'[p[1]][p[2]] = steps[p[1]][p[2]]
  BY ClaimableStays
<1>3. definitions'[w] = definitions[w]
  BY DEF PollReads
<1>4. batch \subseteq Claimable(w, t)
  BY <1>1 DEF PollMakes
<1>5. \A p \in batch : DefinitionOf(p[1])' = DefinitionOf(p[1])
  BY <1>2, <1>3, <1>4 DEF DefinitionOf
<1>6. ASSUME NEW maxResults \in 1..MaxBatch, IsBatch(batch, w, t, maxResults)
      PROVE  IsBatch(batch, w, t, maxResults)'
  BY <1>2, <1>6 DEF IsBatch
<1>7. \A p \in batch : HasLease(p[1], p[2][1])'
  BY <1>1, <1>5 DEF PollMakes, HasLease, StepDefined
<1>8. \A p \in batch : t + DefinitionOf(p[1])'.steps[p[2][1]].lease \in Time
  BY <1>1, <1>5 DEF PollMakes
<1>9. PutExecutions(d)' = executions' /\ PutLocks(d)' = singletonLocks'
  BY <1>0, UntouchedTablesStay DEF PollDraft
<1>10. PutSteps(d)' = BatchClaimed(batch, worker, t)'
  <2>1. ASSUME NEW e \in Executions, NEW k \in Slots
        PROVE  (IF <<e, k>> \in d.steps THEN d.stepRows[e][k] ELSE steps'[e][k])
               = IF <<e, k>> \in batch
                 THEN Claimed(steps'[e][k], worker,
                              t + DefinitionOf(e)'.steps[k[1]].lease)
                 ELSE steps'[e][k]
    <3>1. PutSteps(d)[e][k] = BatchClaimed(batch, worker, t)[e][k]
      BY <1>1 DEF PollMakes
    <3>2. (IF <<e, k>> \in d.steps THEN d.stepRows[e][k] ELSE steps[e][k])
            = IF <<e, k>> \in batch
              THEN Claimed(steps[e][k], worker,
                           t + DefinitionOf(e).steps[k[1]].lease)
              ELSE steps[e][k]
      BY <3>1 DEF PutSteps, BatchClaimed
    <3>3. CASE <<e, k>> \in batch
      <4>1. steps'[e][k] = steps[e][k] /\ DefinitionOf(e)' = DefinitionOf(e)
        BY <1>2, <1>4, <1>5, <3>3
      <4> QED BY <3>2, <3>3, <4>1
    <3>4. CASE <<e, k>> \notin batch
      BY <3>4 DEF PollDraft, PutsOnly
    <3> QED BY <3>3, <3>4
  <2> QED BY <2>1 DEF PutSteps, BatchClaimed
<1>11. PollMakes(batch, w, worker, t,
                 PutExecutions(d), PutLocks(d), PutSteps(d))'
  BY <1>1, <1>2, <1>3, <1>4, <1>6, <1>7, <1>8, <1>9, <1>10 DEF PollMakes
<1> QED BY <1>11 DEF PollDraft, PutsOnly

\* While the three rows a report reads are the same, its checks give the same.
LEMMA ReportReadsStay ==
  ASSUME NEW e \in Executions, executions[e] # None, executions'[e] # None,
         ReportReads(e)' = ReportReads(e)
  PROVE  /\ executions'[e] = executions[e]
         /\ CurrentSlot(e)' = CurrentSlot(e)
         /\ steps'[e][CurrentSlot(e)] = steps[e][CurrentSlot(e)]
         /\ DefinitionOf(e)' = DefinitionOf(e)
         /\ \A s : /\ StepDefined(e, s)' <=> StepDefined(e, s)
                   /\ HasLease(e, s)' <=> HasLease(e, s)
         /\ \A s, w, t : MayReport(e, s, w, t)' <=> MayReport(e, s, w, t)
<1>1. /\ executions'[e] = executions[e]
      /\ steps'[e][CurrentSlot(e)'] = steps[e][CurrentSlot(e)]
      /\ DefinitionOf(e)' = DefinitionOf(e)
  BY DEF ReportReads
<1>2. CurrentSlot(e)' = CurrentSlot(e)
  BY <1>1 DEF CurrentSlot
<1>3. \A s : /\ StepDefined(e, s)' <=> StepDefined(e, s)
             /\ HasLease(e, s)' <=> HasLease(e, s)
  BY <1>1 DEF StepDefined, HasLease
<1>4. \A s, w, t : MayReport(e, s, w, t)' <=> MayReport(e, s, w, t)
  BY <1>1, <1>2 DEF MayReport, IsRunning, OwnsClaim
<1> QED BY <1>1, <1>2, <1>3, <1>4

\* The released rows, after a step that left the current one as it was.
LEMMA ReleasedStays ==
  ASSUME TypeOK, TypeOK', NEW e \in Executions, executions[e] # None,
         CurrentSlot(e)' = CurrentSlot(e),
         steps[e][CurrentSlot(e)] # None,
         steps'[e][CurrentSlot(e)] = steps[e][CurrentSlot(e)],
         NEW status \in StepStatus
  PROVE  /\ Released(e, status) \in StepRows
         /\ Released(e, status)' \in StepRows
         /\ Released(e, status)'[CurrentSlot(e)]
              = Released(e, status)[CurrentSlot(e)]
         /\ \A k \in Slots \ {CurrentSlot(e)} :
              /\ Released(e, status)[k] = steps[e][k]
              /\ Released(e, status)'[k] = steps'[e][k]
<1> DEFINE c == CurrentSlot(e)
           row == ReleasedRow(steps[e][c], status)
<1>1. c \in Slots /\ steps[e][c] \in StepRow
  BY CurrentSlotType DEF TypeOK
<1>2. row \in StepRow
  BY <1>1, ReleasedRowFacts
<1>3. Released(e, status) = [steps[e] EXCEPT ![c] = row]
  BY DEF Released
<1>4. Released(e, status)' = [steps'[e] EXCEPT ![c] = row]
  BY DEF Released, ReleasedRow
<1>5. steps[e] \in StepRows /\ steps'[e] \in StepRows
  BY DEF TypeOK, StepRows
<1> QED BY <1>1, <1>2, <1>3, <1>4, <1>5 DEF StepRows

\* A fresh row put where no active one was is among the rows put.
LEMMA FreshRowPut ==
  ASSUME NEW e \in Executions, Agrees(e), executions[e] # None,
         NEW k \in Slots \ {CurrentSlot(e)}, NEW d,
         PutSteps(d)[e][k] # None, PutSteps(d)[e][k].status = "Pending"
  PROVE  <<e, k>> \in d.steps
<1>1. ~Active(e, k)
  BY DEF Agrees
<1> QED BY <1>1 DEF PutSteps, Active, Has

LEMMA KeepAliveStays ==
  ASSUME TypeOK, TypeOK', NEW e \in Executions, NEW s, NEW w, NEW t, NEW d,
         KeepAliveDraft(e, s, w, t, d), executions'[e] # None,
         ReportReads(e)' = ReportReads(e)
  PROVE  KeepAliveDraft(e, s, w, t, d)'
<1> DEFINE c == CurrentSlot(e)
           row == [steps[e][c] EXCEPT
                     !.leaseExpiresAt = t + DefinitionOf(e).steps[s].lease]
<1>1. KeepAliveMakes(e, s, w, t, PutExecutions(d), PutLocks(d), PutSteps(d))
  BY DEF KeepAliveDraft
<1>2. /\ executions[e] # None /\ c \in Slots /\ steps[e][c] \in StepRow
  BY <1>1, ReporterFacts DEF KeepAliveMakes
<1>3. /\ c' = c /\ steps'[e][c] = steps[e][c]
      /\ DefinitionOf(e)' = DefinitionOf(e)
      /\ HasLease(e, s)' <=> HasLease(e, s)
      /\ MayReport(e, s, w, t)' <=> MayReport(e, s, w, t)
  BY <1>2, ReportReadsStay
<1>4. row \in StepRow
  BY <1>1, <1>2 DEF KeepAliveMakes, StepRow
<1>5. PICK rows : rows = [steps'[e] EXCEPT ![c] = row]
  OBVIOUS
<1>6. rows \in StepRows
  BY <1>2, <1>4, <1>5 DEF TypeOK, StepRows
<1>7. PutSteps(d)'[e] = rows
  <2>1. PICK F : F = {c}
    OBVIOUS
  <2>2. PutSteps(d)[e][c] = row /\ rows[c] = row
    BY <1>1, <1>2, <1>5 DEF KeepAliveMakes, TypeOK
  <2>3. \A k \in Slots \ {c} : rows[k] = steps'[e][k]
    BY <1>5 DEF TypeOK
  <2>4. Stays(d, e, F, rows)
    BY <1>3, <2>1, <2>2, <2>3 DEF Stays, KeepAliveDraft, PutsOnly
  <2> QED BY <1>6, <2>4, RowsStay
<1>8. PutSteps(d)' = [steps' EXCEPT ![e] = rows]
  <2>1. \A f \in Executions \ {e}, k \in Slots : <<f, k>> \notin d.steps
    BY DEF KeepAliveDraft, PutsOnly
  <2> QED BY <1>6, <1>7, <2>1, StepTableStays
<1>9. PutExecutions(d)' = executions' /\ PutLocks(d)' = singletonLocks'
  BY UntouchedTablesStay DEF KeepAliveDraft
<1>10. rows = [steps'[e] EXCEPT ![CurrentSlot(e)'] = [@ EXCEPT
         !.leaseExpiresAt = t + DefinitionOf(e)'.steps[s].lease]]
  BY <1>3, <1>5
<1>11. /\ KeepAliveMakes(e, s, w, t,
                         PutExecutions(d), PutLocks(d), PutSteps(d))'
  BY <1>1, <1>3, <1>8, <1>9, <1>10 DEF KeepAliveMakes
<1> QED BY <1>3, <1>11 DEF KeepAliveDraft, PutsOnly

LEMMA CompleteWorkflowStays ==
  ASSUME TypeOK, TypeOK', NEW e \in Executions, NEW s, NEW w, NEW t, NEW d,
         CompleteWorkflowDraft(e, s, w, t, d), executions'[e] # None,
         ReportReads(e)' = ReportReads(e)
  PROVE  CompleteWorkflowDraft(e, s, w, t, d)'
<1> DEFINE c == CurrentSlot(e)
<1>1. CompleteWorkflowMakes(e, s, w, t,
                            PutExecutions(d), PutLocks(d), PutSteps(d))
  BY DEF CompleteWorkflowDraft
<1>2. executions[e] # None /\ c \in Slots /\ steps[e][c] # None
  BY <1>1, ReporterFacts DEF CompleteWorkflowMakes
<1>3. /\ executions'[e] = executions[e]
      /\ c' = c /\ steps'[e][c] = steps[e][c]
      /\ MayReport(e, s, w, t)' <=> MayReport(e, s, w, t)
  BY <1>2, ReportReadsStay
<1>4. PICK rows : rows = Released(e, "Completed")'
  OBVIOUS
<1>5. /\ rows \in StepRows
      /\ rows[c] = Released(e, "Completed")[c]
      /\ \A k \in Slots \ {c} : rows[k] = steps'[e][k]
  BY <1>2, <1>3, <1>4, ReleasedStays DEF StepStatus
<1>6. PutSteps(d)'[e] = rows
  <2>1. PICK F : F = {c}
    OBVIOUS
  <2>2. PutSteps(d)[e][c] = Released(e, "Completed")[c]
    BY <1>1 DEF CompleteWorkflowMakes, TypeOK
  <2>3. Stays(d, e, F, rows)
    BY <1>3, <1>5, <2>1, <2>2 DEF Stays, CompleteWorkflowDraft, PutsOnly
  <2> QED BY <1>5, <2>3, RowsStay
<1>7. PutSteps(d)' = [steps' EXCEPT ![e] = rows]
  <2>1. \A f \in Executions \ {e}, k \in Slots : <<f, k>> \notin d.steps
    BY DEF CompleteWorkflowDraft, PutsOnly
  <2> QED BY <1>5, <1>6, <2>1, StepTableStays
<1>8. PutExecutions(d)' = [executions' EXCEPT ![e] =
        [executions'[e] EXCEPT !.status = "Completed"]]
  <2>1. PICK row : row = [executions[e] EXCEPT !.status = "Completed"]
    OBVIOUS
  <2>2. PutExecutions(d)[e] = row
    BY <1>1, <2>1 DEF CompleteWorkflowMakes, TypeOK
  <2>3. d.executions \subseteq {e}
    BY DEF CompleteWorkflowDraft
  <2> QED BY <1>3, <2>1, <2>2, <2>3, ExecutionTableStays
<1>9. PutLocks(d)' = singletonLocks'
  BY UntouchedTablesStay DEF CompleteWorkflowDraft
<1>10. CompleteWorkflowMakes(e, s, w, t,
                             PutExecutions(d), PutLocks(d), PutSteps(d))'
  BY <1>1, <1>3, <1>4, <1>7, <1>8, <1>9 DEF CompleteWorkflowMakes
<1> QED BY <1>3, <1>10 DEF CompleteWorkflowDraft, PutsOnly

LEMMA CompleteStepStays ==
  ASSUME TypeOK, TypeOK', NEW e \in Executions, Agrees(e), NEW s, NEW w,
         NEW t \in Time, NEW next \in StepNames, NEW input \in Inputs,
         NEW delay \in Delays \cup {None}, NEW d,
         CompleteStepDraft(e, s, w, next, input, delay, t, d),
         executions'[e] # None, ReportReads(e)' = ReportReads(e)
  PROVE  CompleteStepDraft(e, s, w, next, input, delay, t, d)'
<1> DEFINE c == CurrentSlot(e)
           n == <<next, 0>>
           fresh == NewStep(input, t, IF delay = None THEN None ELSE t + delay)
<1>1. CompleteStepMakes(e, s, w, next, input, delay, t,
                        PutExecutions(d), PutLocks(d), PutSteps(d))
  BY DEF CompleteStepDraft
<1>2. executions[e] # None /\ c \in Slots /\ steps[e][c] # None
  BY <1>1, ReporterFacts DEF CompleteStepMakes
<1>3. /\ executions'[e] = executions[e]
      /\ c' = c /\ steps'[e][c] = steps[e][c]
      /\ StepDefined(e, next)' <=> StepDefined(e, next)
      /\ MayReport(e, s, w, t)' <=> MayReport(e, s, w, t)
  BY <1>2, ReportReadsStay
<1>4. /\ n \in Slots
      /\ PutSteps(d)[e][n] # None /\ PutSteps(d)[e][n].status = "Pending"
  BY <1>1, CompleteStepTypes
<1>5. n # c => <<e, n>> \in d.steps
  BY <1>2, <1>4, FreshRowPut
<1>6. /\ Released(e, "Completed") \in StepRows
      /\ Released(e, "Completed")' \in StepRows
      /\ Released(e, "Completed")'[c] = Released(e, "Completed")[c]
      /\ \A k \in Slots \ {c} :
           /\ Released(e, "Completed")[k] = steps[e][k]
           /\ Released(e, "Completed")'[k] = steps'[e][k]
  BY <1>2, <1>3, ReleasedStays DEF StepStatus
<1>7. PutSteps(d)[e] = [Released(e, "Completed") EXCEPT ![n] = fresh]
  BY <1>1 DEF CompleteStepMakes, TypeOK
<1>8. fresh \in StepRow
  BY <1>1, NewStepRow DEF CompleteStepMakes
<1>9. PICK rows : rows = [Released(e, "Completed")' EXCEPT ![n] = fresh]
  OBVIOUS
<1>10. /\ rows \in StepRows
       /\ rows[n] = PutSteps(d)[e][n] /\ rows[c] = PutSteps(d)[e][c]
       /\ \A k \in Slots \ {c, n} : rows[k] = steps'[e][k]
  BY <1>2, <1>4, <1>6, <1>7, <1>8, <1>9 DEF StepRows
<1>11. PutSteps(d)'[e] = rows
  <2>1. PICK F : F = {c, n}
    OBVIOUS
  <2>2. \A k \in Slots : <<e, k>> \in d.steps => k \in F
    BY <2>1 DEF CompleteStepDraft, PutsOnly
  <2>3. \A k \in Slots : k \in F =>
          /\ <<e, k>> \notin d.steps => steps'[e][k] = steps[e][k]
          /\ rows[k] = PutSteps(d)[e][k]
    BY <1>3, <1>5, <1>10, <2>1
  <2>4. \A k \in Slots : k \notin F => rows[k] = steps'[e][k]
    BY <1>10, <2>1
  <2>5. Stays(d, e, F, rows)
    BY <2>2, <2>3, <2>4 DEF Stays
  <2> QED BY <1>10, <2>5, RowsStay
<1>12. PutSteps(d)' = [steps' EXCEPT ![e] = rows]
  <2>1. \A f \in Executions \ {e}, k \in Slots : <<f, k>> \notin d.steps
    BY DEF CompleteStepDraft, PutsOnly
  <2> QED BY <1>10, <1>11, <2>1, StepTableStays
<1>13. PutExecutions(d)' = [executions' EXCEPT ![e] = [executions'[e] EXCEPT
         !.currentStepName = next, !.currentStepAttempt = 0]]
  <2>1. PICK row : row = [executions[e] EXCEPT
                            !.currentStepName = next, !.currentStepAttempt = 0]
    OBVIOUS
  <2>2. PutExecutions(d)[e] = row
    BY <1>1, <2>1 DEF CompleteStepMakes, TypeOK
  <2>3. d.executions \subseteq {e}
    BY DEF CompleteStepDraft
  <2> QED BY <1>3, <2>1, <2>2, <2>3, ExecutionTableStays
<1>14. PutLocks(d)' = singletonLocks'
  BY UntouchedTablesStay DEF CompleteStepDraft
<1>15. CompleteStepMakes(e, s, w, next, input, delay, t,
                         PutExecutions(d), PutLocks(d), PutSteps(d))'
  BY <1>1, <1>3, <1>9, <1>12, <1>13, <1>14 DEF CompleteStepMakes
<1> QED BY <1>3, <1>15 DEF CompleteStepDraft, PutsOnly

\* The rows of a failure, for a failing report and for each row of a sweep.
LEMMA FailureStays ==
  ASSUME TypeOK, TypeOK', NEW e \in Executions, Agrees(e),
         executions[e] # None, DefinitionOf(e) # None,
         StepDefined(e, executions[e].currentStepName),
         steps[e][CurrentSlot(e)] # None, NEW t \in Time, NEW d,
         \A k \in Slots : <<e, k>> \in d.steps => k \in FailureSlots(e),
         PutSteps(d)[e] = StepsAfterFailure(e, t),
         executions'[e] = executions[e],
         steps'[e][CurrentSlot(e)] = steps[e][CurrentSlot(e)],
         DefinitionOf(e)' = DefinitionOf(e)
  PROVE  /\ ExecutionAfterFailure(e)' = ExecutionAfterFailure(e)
         /\ FailureSlots(e)' = FailureSlots(e)
         /\ StepsAfterFailure(e, t)' \in StepRows
         /\ PutSteps(d)'[e] = StepsAfterFailure(e, t)'
<1> DEFINE c == CurrentSlot(e)
           n == <<executions[e].currentStepName,
                  executions[e].currentStepAttempt + 1>>
           fresh == NewStep(steps[e][c].input, t, None)
<1>1. c' = c /\ (Retries(e)' <=> Retries(e))
  BY DEF CurrentSlot, Retries
<1>2. /\ ExecutionAfterFailure(e)' = ExecutionAfterFailure(e)
      /\ FailureSlots(e)' = FailureSlots(e)
  BY <1>1 DEF ExecutionAfterFailure, FailureSlots
<1>3. /\ Released(e, "Failed") \in StepRows
      /\ Released(e, "Failed")' \in StepRows
      /\ Released(e, "Failed")'[c] = Released(e, "Failed")[c]
      /\ \A k \in Slots \ {c} :
           /\ Released(e, "Failed")[k] = steps[e][k]
           /\ Released(e, "Failed")'[k] = steps'[e][k]
  BY <1>1, ReleasedStays DEF StepStatus
<1>4. c \in Slots /\ steps[e][c] \in StepRow
  BY CurrentSlotType DEF TypeOK
<1>5. PICK rows : rows = StepsAfterFailure(e, t)'
  OBVIOUS
<1>6. PICK F : F = FailureSlots(e)
  OBVIOUS
<1>7. CASE Retries(e)
  <2>1. executions[e].currentStepAttempt + 1 \in Attempts
    BY <1>7, FailureFacts, BoundsAssumption, NoneAssumption
  <2>2. n \in Slots
    BY <2>1, CurrentSlotType DEF Slots
  <2>3. n # c
    <3>1. executions[e].currentStepAttempt \in Nat
      BY CurrentSlotType, BoundsAssumption DEF Attempts
    <3> QED BY <3>1 DEF CurrentSlot
  <2>4. PutSteps(d)[e] = [Released(e, "Failed") EXCEPT ![n] = fresh]
    BY <1>7 DEF StepsAfterFailure
  <2>5. rows = [Released(e, "Failed")' EXCEPT ![n] = fresh]
    BY <1>1, <1>5, <1>7 DEF StepsAfterFailure
  <2>6. fresh \in StepRow /\ fresh # None /\ fresh.status = "Pending"
    BY <1>4, NewStepRow DEF StepRow
  <2>7. <<e, n>> \in d.steps
    <3>1. PutSteps(d)[e][n] = fresh
      BY <1>3, <2>2, <2>4 DEF StepRows
    <3> QED BY <2>2, <2>3, <2>6, <3>1, FreshRowPut
  <2>8. /\ rows \in StepRows
        /\ rows[n] = PutSteps(d)[e][n] /\ rows[c] = PutSteps(d)[e][c]
        /\ \A k \in Slots \ {c, n} : rows[k] = steps'[e][k]
    BY <1>3, <1>4, <2>2, <2>4, <2>5, <2>6 DEF StepRows
  <2>9. F = {c, n}
    BY <1>6, <1>7 DEF FailureSlots
  <2>10. Stays(d, e, F, rows)
    <3>1. \A k \in Slots : <<e, k>> \in d.steps => k \in F
      BY <1>6
    <3>2. \A k \in Slots : k \in F =>
            /\ <<e, k>> \notin d.steps => steps'[e][k] = steps[e][k]
            /\ rows[k] = PutSteps(d)[e][k]
      BY <2>7, <2>8, <2>9
    <3>3. \A k \in Slots : k \notin F => rows[k] = steps'[e][k]
      BY <2>8, <2>9
    <3> QED BY <3>1, <3>2, <3>3 DEF Stays
  <2> QED BY <1>2, <1>5, <2>8, <2>10, RowsStay
<1>8. CASE ~Retries(e)
  <2>1. PutSteps(d)[e] = Released(e, "Failed")
    BY <1>8 DEF StepsAfterFailure
  <2>2. rows = Released(e, "Failed")'
    BY <1>1, <1>5, <1>8 DEF StepsAfterFailure
  <2>3. F = {c}
    BY <1>6, <1>8 DEF FailureSlots
  <2>4. Stays(d, e, F, rows)
    BY <1>3, <1>6, <2>1, <2>2, <2>3 DEF Stays
  <2> QED BY <1>2, <1>3, <1>5, <2>2, <2>4, RowsStay
<1> QED BY <1>7, <1>8

LEMMA FailStepStays ==
  ASSUME TypeOK, TypeOK', NEW e \in Executions, Agrees(e), NEW s, NEW w,
         NEW t \in Time, NEW d, FailStepDraft(e, s, w, t, d),
         executions'[e] # None, ReportReads(e)' = ReportReads(e)
  PROVE  FailStepDraft(e, s, w, t, d)'
<1>1. FailStepMakes(e, s, w, t, PutExecutions(d), PutLocks(d), PutSteps(d))
  BY DEF FailStepDraft
<1>2. /\ executions[e] # None /\ steps[e][CurrentSlot(e)] # None
      /\ DefinitionOf(e) # None /\ executions[e].currentStepName = s
      /\ StepDefined(e, s)
  BY <1>1, ReporterFacts DEF FailStepMakes
<1>3. /\ executions'[e] = executions[e]
      /\ CurrentSlot(e)' = CurrentSlot(e)
      /\ steps'[e][CurrentSlot(e)] = steps[e][CurrentSlot(e)]
      /\ DefinitionOf(e)' = DefinitionOf(e)
      /\ StepDefined(e, s)' <=> StepDefined(e, s)
      /\ MayReport(e, s, w, t)' <=> MayReport(e, s, w, t)
  BY <1>2, ReportReadsStay
<1>4. \A k \in Slots : <<e, k>> \in d.steps => k \in FailureSlots(e)
  BY DEF FailStepDraft, PutsOnly
<1>5. PutSteps(d)[e] = StepsAfterFailure(e, t)
  BY <1>1 DEF FailStepMakes, TypeOK
<1>6. /\ ExecutionAfterFailure(e)' = ExecutionAfterFailure(e)
      /\ FailureSlots(e)' = FailureSlots(e)
      /\ StepsAfterFailure(e, t)' \in StepRows
      /\ PutSteps(d)'[e] = StepsAfterFailure(e, t)'
  BY <1>2, <1>3, <1>4, <1>5, FailureStays
<1>7. PutSteps(d)' = [steps' EXCEPT ![e] = StepsAfterFailure(e, t)']
  <2>1. PICK rows : rows = StepsAfterFailure(e, t)'
    OBVIOUS
  <2>2. \A f \in Executions \ {e}, k \in Slots : <<f, k>> \notin d.steps
    BY DEF FailStepDraft, PutsOnly
  <2> QED BY <1>6, <2>1, <2>2, StepTableStays
<1>8. PutExecutions(d)' = [executions' EXCEPT ![e] = ExecutionAfterFailure(e)']
  <2>1. PICK row : row = ExecutionAfterFailure(e)
    OBVIOUS
  <2>2. PutExecutions(d)[e] = row
    BY <1>1, <2>1 DEF FailStepMakes, TypeOK
  <2>3. d.executions \subseteq {e}
    BY DEF FailStepDraft
  <2> QED BY <1>3, <1>6, <2>1, <2>2, <2>3, ExecutionTableStays
<1>9. PutLocks(d)' = singletonLocks'
  BY UntouchedTablesStay DEF FailStepDraft
<1>10. FailStepMakes(e, s, w, t, PutExecutions(d), PutLocks(d), PutSteps(d))'
  BY <1>1, <1>3, <1>7, <1>8, <1>9 DEF FailStepMakes
<1>11. PutsOnly(d, {<<e, k>> : k \in FailureSlots(e)})'
  BY <1>6 DEF FailStepDraft, PutsOnly
<1> QED BY <1>10, <1>11 DEF FailStepDraft

LEMMA CancelStays ==
  ASSUME TypeOK, TypeOK', NEW e \in Executions, NEW d, CancelDraft(e, d),
         CancelReads(e)' = CancelReads(e)
  PROVE  CancelDraft(e, d)'
<1>1. CancelMakes(e, PutExecutions(d), PutLocks(d), PutSteps(d))
  BY DEF CancelDraft
<1>2. executions'[e] = executions[e] /\ steps'[e] = steps[e]
  BY DEF CancelReads
<1>3. IsRunning(e)' /\ CanceledSteps(e)' = CanceledSteps(e)
  BY <1>1, <1>2 DEF CancelMakes, IsRunning, CanceledSteps, CanceledRow, Active,
                    Has
<1>4. PICK rows : rows = CanceledSteps(e)
  OBVIOUS
<1>5. rows \in StepRows
  BY <1>4, CanceledTypes
<1>6. PutSteps(d)'[e] = rows
  <2>1. PICK F : F = Slots
    OBVIOUS
  <2>2. PutSteps(d)[e] = rows
    BY <1>1, <1>4 DEF CancelMakes, TypeOK
  <2>3. Stays(d, e, F, rows)
    BY <1>2, <2>1, <2>2 DEF Stays
  <2> QED BY <1>5, <2>3, RowsStay
<1>7. PutSteps(d)' = [steps' EXCEPT ![e] = CanceledSteps(e)']
  <2>1. \A f \in Executions \ {e}, k \in Slots : <<f, k>> \notin d.steps
    BY DEF CancelDraft, PutsOnly
  <2> QED BY <1>3, <1>4, <1>5, <1>6, <2>1, StepTableStays
<1>8. PutExecutions(d)' = [executions' EXCEPT ![e] =
        [executions'[e] EXCEPT !.status = "Canceled"]]
  <2>1. PICK row : row = [executions[e] EXCEPT !.status = "Canceled"]
    OBVIOUS
  <2>2. PutExecutions(d)[e] = row
    BY <1>1, <2>1 DEF CancelMakes, TypeOK
  <2>3. d.executions \subseteq {e}
    BY DEF CancelDraft
  <2> QED BY <1>2, <2>1, <2>2, <2>3, ExecutionTableStays
<1>9. PutLocks(d)' = singletonLocks'
  BY UntouchedTablesStay DEF CancelDraft
<1>10. CancelMakes(e, PutExecutions(d), PutLocks(d), PutSteps(d))'
  BY <1>3, <1>7, <1>8, <1>9 DEF CancelMakes
<1> QED BY <1>10 DEF CancelDraft, PutsOnly

\* What is due follows from the query of a sweep and the rows it then reads.
LEMMA DueStays ==
  ASSUME TypeOK, TypeOK', NEW t, SweepReads(t)' = SweepReads(t),
         NEW e \in Executions, e \in Due(t) \/ e \in Due(t)'
  PROVE  /\ e \in Due(t) /\ e \in Due(t)'
         /\ executions'[e] = executions[e]
         /\ CurrentSlot(e)' = CurrentSlot(e)
         /\ steps'[e][CurrentSlot(e)] = steps[e][CurrentSlot(e)]
         /\ DefinitionOf(e)' = DefinitionOf(e)
<1> DEFINE Expired == {p \in StepKeys :
                         /\ Has(p[1], p[2], {"Running"})
                         /\ steps[p[1]][p[2]].leaseExpiresAt # None
                         /\ steps[p[1]][p[2]].leaseExpiresAt <= t}
           Read(p) == <<p, executions[p[1]],
                        IF IsRunning(p[1]) /\ CurrentSlot(p[1]) = p[2]
                        THEN DefinitionOf(p[1]) ELSE None>>
<1>1. /\ StepsInStatus(None, {"Running"})' = StepsInStatus(None, {"Running"})
      /\ {Read(p) : p \in Expired}' = {Read(p) : p \in Expired}
  BY DEF SweepReads
<1>2. CASE e \in Due(t)
  <2>1. PICK c : c = CurrentSlot(e)
    OBVIOUS
  <2>2. /\ c \in Slots /\ <<e, c>> \in StepKeys /\ <<e, c>> \in Expired
        /\ IsRunning(e) /\ Has(e, c, {"Running"})
    BY <1>2, <2>1, DueFacts DEF Due, StepKeys
  <2>3. <<<<e, c>>, executions[e], DefinitionOf(e)>> \in {Read(p) : p \in Expired}
    BY <2>1, <2>2
  <2>4. PICK p \in Expired' :
          <<<<e, c>>, executions[e], DefinitionOf(e)>> = Read(p)'
    BY <1>1, <2>3
  <2>5. p = <<e, c>> /\ executions'[e] = executions[e]
    BY <2>4
  <2>6. IsRunning(e)' /\ CurrentSlot(e)' = c
    BY <2>1, <2>2, <2>5 DEF IsRunning, CurrentSlot
  <2>7. DefinitionOf(e)' = DefinitionOf(e)
    BY <2>4, <2>5, <2>6
  <2>8. steps'[e][c] = steps[e][c]
    BY <1>1, <2>2, QueryStays
  <2>9. e \in Due(t)'
    BY <1>2, <2>1, <2>5, <2>6, <2>7, <2>8 DEF Due, Has
  <2> QED BY <1>2, <2>1, <2>5, <2>6, <2>7, <2>8, <2>9
<1>3. CASE e \in Due(t)'
  <2>1. PICK c : c = CurrentSlot(e)'
    OBVIOUS
  <2>2. /\ IsRunning(e)' /\ Has(e, c, {"Running"})'
        /\ steps'[e][c].leaseExpiresAt # None
        /\ steps'[e][c].leaseExpiresAt <= t
        /\ DefinitionOf(e)' # None
    BY <1>3, <2>1 DEF Due
  <2>3. c \in Slots
    BY <2>1, <2>2 DEF TypeOK, IsRunning, CurrentSlot, ExecutionRow, Slots
  <2>4. <<e, c>> \in Expired'
    BY <2>2, <2>3 DEF StepKeys
  <2>5. <<<<e, c>>, executions'[e], DefinitionOf(e)'>>
          \in {Read(p) : p \in Expired}'
    BY <2>1, <2>2, <2>4
  <2>6. PICK p \in Expired :
          <<<<e, c>>, executions'[e], DefinitionOf(e)'>> = Read(p)
    BY <1>1, <2>5
  <2>7. p = <<e, c>> /\ executions'[e] = executions[e]
    BY <2>6
  <2>8. IsRunning(e) /\ CurrentSlot(e) = c
    BY <2>1, <2>2, <2>7 DEF IsRunning, CurrentSlot
  <2>9. DefinitionOf(e)' = DefinitionOf(e)
    BY <2>6, <2>7, <2>8
  <2>10. steps'[e][c] = steps[e][c]
    BY <1>1, <2>2, <2>3, QueryStays
  <2>11. e \in Due(t)
    BY <2>2, <2>8, <2>9, <2>10 DEF Due, Has
  <2> QED BY <1>3, <2>1, <2>7, <2>8, <2>9, <2>10, <2>11
<1> QED BY <1>2, <1>3

LEMMA SweepStays ==
  ASSUME TablesInv, TablesInv', NEW t \in Time, NEW d, SweepDraft(t, d),
         SweepReads(t)' = SweepReads(t)
  PROVE  SweepDraft(t, d)'
<1>0. TypeOK /\ TypeOK'
  BY DEF TablesInv
<1>1. SweepMakes(t, PutExecutions(d), PutLocks(d), PutSteps(d))
  BY DEF SweepDraft
<1>2. Due(t)' = Due(t)
  BY <1>0, DueStays DEF Due
<1>3. ASSUME NEW e \in Due(t)
      PROVE  /\ e \in Executions
             /\ executions'[e] = executions[e]
             /\ StepDefined(e, executions[e].currentStepName)
             /\ StepDefined(e, executions[e].currentStepName)'
             /\ ExecutionAfterFailure(e)' = ExecutionAfterFailure(e)
             /\ FailureSlots(e)' = FailureSlots(e)
             /\ PutSteps(d)'[e] = StepsAfterFailure(e, t)'
  <2>1. /\ e \in Executions /\ executions[e] # None
        /\ steps[e][CurrentSlot(e)] # None /\ DefinitionOf(e) # None
    BY <1>0, DueFacts
  <2>2. /\ executions'[e] = executions[e]
        /\ CurrentSlot(e)' = CurrentSlot(e)
        /\ steps'[e][CurrentSlot(e)] = steps[e][CurrentSlot(e)]
        /\ DefinitionOf(e)' = DefinitionOf(e)
    BY <1>0, <2>1, DueStays
  <2>3. StepDefined(e, executions[e].currentStepName)
    BY <1>1 DEF SweepMakes
  <2>4. StepDefined(e, executions[e].currentStepName)'
    BY <2>2, <2>3 DEF StepDefined
  <2>5. \A k \in Slots : <<e, k>> \in d.steps => k \in FailureSlots(e)
    BY <2>1 DEF SweepDraft
  <2>6. PutSteps(d)[e] = StepsAfterFailure(e, t)
    BY <1>1, <2>1 DEF SweepMakes
  <2>7. Agrees(e)
    BY <2>1 DEF TablesInv, TablesAgree
  <2> QED BY <1>0, <2>1, <2>2, <2>3, <2>4, <2>5, <2>6, <2>7, FailureStays
<1>4. PutExecutions(d)' = [e \in Executions |->
        IF e \in Due(t) THEN ExecutionAfterFailure(e)' ELSE executions'[e]]
  <2>1. ASSUME NEW e \in Executions
        PROVE  (IF e \in d.executions THEN d.executionRows[e] ELSE executions'[e])
               = IF e \in Due(t) THEN ExecutionAfterFailure(e)'
                                 ELSE executions'[e]
    <3>1. PutExecutions(d)[e] =
            IF e \in Due(t) THEN ExecutionAfterFailure(e) ELSE executions[e]
      BY <1>1 DEF SweepMakes
    <3>2. (IF e \in d.executions THEN d.executionRows[e] ELSE executions[e])
            = IF e \in Due(t) THEN ExecutionAfterFailure(e) ELSE executions[e]
      BY <3>1 DEF PutExecutions
    <3> QED BY <1>3, <3>2 DEF SweepDraft
  <2> QED BY <2>1 DEF PutExecutions
<1>5. PutSteps(d)' = [e \in Executions |->
        IF e \in Due(t) THEN StepsAfterFailure(e, t)' ELSE steps'[e]]
  <2>1. ASSUME NEW e \in Executions \ Due(t) PROVE PutSteps(d)'[e] = steps'[e]
    <3>1. PutSteps(d)'[e] = [k \in Slots |-> steps'[e][k]]
      BY DEF PutSteps, SweepDraft
    <3>2. steps'[e] = [k \in Slots |-> steps'[e][k]]
      BY <1>0 DEF TypeOK
    <3> QED BY <3>1, <3>2
  <2>2. PutSteps(d)' = [e \in Executions |-> PutSteps(d)'[e]]
    BY DEF PutSteps
  <2> QED BY <1>3, <2>1, <2>2
<1>6. PutLocks(d)' = singletonLocks'
  BY <1>0, UntouchedTablesStay DEF SweepDraft
<1>7. Due(t) # {}
  BY <1>1 DEF SweepMakes
<1>8. (\A e \in Due(t) : StepDefined(e, executions[e].currentStepName))'
  BY <1>2, <1>3
<1>9. SweepMakes(t, PutExecutions(d), PutLocks(d), PutSteps(d))'
  BY <1>2, <1>4, <1>5, <1>6, <1>7, <1>8 DEF SweepMakes
<1>10. \A e \in Executions, k \in Slots : <<e, k>> \in d.steps =>
         e \in Due(t) /\ k \in FailureSlots(e)'
  BY <1>3 DEF SweepDraft
<1> QED BY <1>2, <1>9, <1>10 DEF SweepDraft

\* A draft stays pending while the reads of its operation stay the same.
LEMMA PendingStays ==
  ASSUME TablesInv, TablesInv', NEW op \in Operations, NEW t \in Time, NEW d,
         Pending(op, t, d), Reads(op, t)' = Reads(op, t),
         \A e \in Executions : executions[e] # None => executions'[e] # None,
         op.type = "start" => executions'[op.execution] = None
  PROVE  Pending(op, t, d)'
<1>0. TypeOK /\ TypeOK'
  BY DEF TablesInv
<1>1. CASE op.type = "start"
  <2>1. op.workflow \in Workflows /\ op.execution \in Executions
    BY <1>1 DEF Operations
  <2>2. StartReads(op.workflow)' = StartReads(op.workflow)
    BY <1>1 DEF Reads
  <2>3. StartDraft(op.workflow, op.execution, t, d)
    BY <1>1 DEF Pending
  <2>4. StartDraft(op.workflow, op.execution, t, d)'
    BY <1>1, <2>1, <2>2, <2>3, StartStays
  <2> QED BY <1>1, <2>4 DEF Pending
<1>2. CASE op.type = "poll"
  <2>1. op.workflow \in Workflows /\ op.worker \in Workers
    BY <1>2 DEF Operations
  <2>2. PollReads(op.workflow)' = PollReads(op.workflow)
    BY <1>2 DEF Reads
  <2>3. PICK batch \in SUBSET StepKeys :
          PollDraft(batch, op.workflow, op.worker, t, d)
    BY <1>2 DEF Pending
  <2>4. PollDraft(batch, op.workflow, op.worker, t, d)'
    BY <2>1, <2>2, <2>3, PollStays
  <2> QED BY <1>2, <2>4 DEF Pending
<1>3. CASE op.type = "report"
  <2>1. PICK e \in Executions, w \in Workers :
          e = op.execution /\ w = op.worker
    BY <1>3 DEF Operations
  <2>2. ReportReads(e)' = ReportReads(e)
    BY <1>3, <2>1 DEF Reads
  <2>3. PICK s \in StepNames :
          \/ KeepAliveDraft(e, s, w, t, d)
          \/ CompleteWorkflowDraft(e, s, w, t, d)
          \/ \E next \in StepNames, input \in Inputs,
                delay \in Delays \cup {None} :
               CompleteStepDraft(e, s, w, next, input, delay, t, d)
          \/ FailStepDraft(e, s, w, t, d)
    BY <1>3, <2>1 DEF Pending, ReportDraft
  <2>4. MayReport(e, s, w, t)
    BY <2>3 DEF KeepAliveDraft, KeepAliveMakes, CompleteWorkflowDraft,
                CompleteWorkflowMakes, CompleteStepDraft, CompleteStepMakes,
                FailStepDraft, FailStepMakes
  <2>5. executions'[e] # None /\ Agrees(e)
    BY <2>4 DEF MayReport, IsRunning, TablesInv, TablesAgree
  <2>6. ReportDraft(e, w, t, d)'
    <3>1. CASE KeepAliveDraft(e, s, w, t, d)
      BY <1>0, <2>2, <2>5, <3>1, KeepAliveStays DEF ReportDraft
    <3>2. CASE CompleteWorkflowDraft(e, s, w, t, d)
      BY <1>0, <2>2, <2>5, <3>2, CompleteWorkflowStays DEF ReportDraft
    <3>3. ASSUME NEW next \in StepNames, NEW input \in Inputs,
                 NEW delay \in Delays \cup {None},
                 CompleteStepDraft(e, s, w, next, input, delay, t, d)
          PROVE  ReportDraft(e, w, t, d)'
      <4>1. CompleteStepDraft(e, s, w, next, input, delay, t, d)'
        BY <1>0, <2>2, <2>5, <3>3, CompleteStepStays
      <4> QED BY <4>1 DEF ReportDraft
    <3>4. CASE FailStepDraft(e, s, w, t, d)
      BY <1>0, <2>2, <2>5, <3>4, FailStepStays DEF ReportDraft
    <3> QED BY <2>3, <3>1, <3>2, <3>3, <3>4
  <2> QED BY <1>3, <2>1, <2>6 DEF Pending
<1>4. CASE op.type = "cancel"
  <2>1. op.execution \in Executions
    BY <1>4 DEF Operations
  <2>2. CancelReads(op.execution)' = CancelReads(op.execution)
    BY <1>4 DEF Reads
  <2>3. CancelDraft(op.execution, d)'
    BY <1>0, <1>4, <2>1, <2>2, CancelStays DEF Pending
  <2> QED BY <1>4, <2>3 DEF Pending
<1>5. CASE op.type = "sweep"
  <2>1. SweepReads(t)' = SweepReads(t)
    BY <1>5 DEF Reads
  <2>2. SweepDraft(t, d)'
    BY <1>5, <2>1, SweepStays DEF Pending
  <2> QED BY <1>5, <2>2 DEF Pending
<1> QED BY <1>1, <1>2, <1>3, <1>4, <1>5 DEF Operations

-----------------------------------------------------------------------------
(* The steps of the specification.                                          *)

LEMMA TablesStep ==
  ASSUME TablesInv, [Next]_vars PROVE TablesInv'
<1>1. TypeOK'
  BY TypeStep DEF TablesInv
<1>2. ASSUME NEW e \in Executions PROVE Agrees(e)'
  BY EveryMoves, MoveAgrees, BoundsAssumption, NoneAssumption
     DEF TablesInv, TablesAgree
<1> QED BY <1>1, <1>2 DEF TablesInv, TablesAgree

\* An execution is never removed.
LEMMA ExecutionsRemain ==
  ASSUME TypeOK, [Next]_vars, NEW e \in Executions, executions[e] # None
  PROVE  executions'[e] # None
<1>1. executions[e] \in ExecutionRow
  BY CurrentSlotType
<1>2. ASSUME Failed(e) PROVE executions'[e] # None
  <2>1. steps[e][CurrentSlot(e)] # None
    BY <1>2 DEF Failed, Reportable, Has
  <2>2. PICK t \in Time : steps'[e] = StepsAfterFailure(e, t)
    BY <1>2 DEF Failed
  <2>3. ExecutionAfterFailure(e) \in ExecutionRow
    BY <1>2, <2>1, <2>2, FailureFacts, BoundsAssumption, NoneAssumption
       DEF Failed
  <2> QED BY <1>2, <2>3, NoneAssumption DEF Failed
<1> QED BY <1>1, <1>2, EveryMoves, BoundsAssumption, NoneAssumption
        DEF Same, Begun, Held, Finished, Advanced, Canceled, Keeps

LEMMA UnchangedReads ==
  ASSUME UNCHANGED vars, NEW op, NEW t
  PROVE  Reads(op, t)' = Reads(op, t)
<1>1. \A e, k, statuses : Has(e, k, statuses)' <=> Has(e, k, statuses)
  BY DEF vars, Has
<1>2. \A w, statuses : StepsInStatus(w, statuses)' = StepsInStatus(w, statuses)
  BY <1>1 DEF vars, StepsInStatus
<1>3. \A e : /\ IsRunning(e)' <=> IsRunning(e)
             /\ CurrentSlot(e)' = CurrentSlot(e)
             /\ DefinitionOf(e)' = DefinitionOf(e)
  BY DEF vars, IsRunning, CurrentSlot, DefinitionOf
<1>4. SweepReads(t)' = SweepReads(t)
  BY <1>1, <1>2, <1>3 DEF vars, SweepReads
<1>5. \A w : StartReads(w)' = StartReads(w) /\ PollReads(w)' = PollReads(w)
  BY <1>2 DEF vars, StartReads, PollReads
<1>6. \A e : ReportReads(e)' = ReportReads(e) /\ CancelReads(e)' = CancelReads(e)
  BY <1>3 DEF vars, ReportReads, CancelReads
<1> QED BY <1>4, <1>5, <1>6 DEF Reads

\* A draft pending before a step that changes no table is pending after it.
LEMMA PendingUnchanged ==
  ASSUME TablesInv, TablesInv', UNCHANGED vars, NEW op \in Operations,
         NEW t \in Time, NEW d, Pending(op, t, d)
  PROVE  Pending(op, t, d)'
<1>1. Reads(op, t)' = Reads(op, t)
  BY UnchangedReads
<1>2. \A e \in Executions : executions'[e] = executions[e]
  BY DEF vars
<1>3. op.type = "start" => op.execution \in Executions
                           /\ executions'[op.execution] = None
  BY <1>2 DEF Operations, Pending, StartDraft, StartMakes
<1> QED BY <1>1, <1>2, <1>3, PendingStays

LEMMA RunStep ==
  ASSUME TransactionInv, NEW op \in Operations, Run(op)
  PROVE  TransactionInv'
<1> DEFINE tables == TableTypes(txExecutions', txSingletonLocks', txSteps')
<1>1. TypeOK /\ TablesInv /\ Mirrored
  BY DEF TransactionInv, TransactionTypeOK, TablesInv, Run
<1>2. UNCHANGED vars /\ TablesInv'
  BY <1>1, TablesStep DEF Run
<1>3. tx' = [operation  |-> op,
             readAt     |-> now,
             executions |-> {e \in Executions :
                               txExecutions'[e] # txExecutions[e]},
             locks      |-> {w \in Workflows :
                               txSingletonLocks'[w] # txSingletonLocks[w]},
             steps      |-> {p \in StepKeys :
                               txSteps'[p[1]][p[2]] # txSteps[p[1]][p[2]]}]
  BY DEF Run
<1>4. PICK d : d = Draft'
  OBVIOUS
<1>5. Puts(d, txExecutions', txSingletonLocks', txSteps')
  BY <1>1, <1>3, <1>4 DEF Puts, Draft, Mirrored
<1>6. PICK t \in Time : t = now
  BY <1>1 DEF TypeOK
<1>7. tables /\ Pending(op, t, d)
  BY <1>1, <1>5, <1>6, OperationDrafted DEF Run
<1>8. Pending(op, t, d)'
  BY <1>1, <1>2, <1>7, PendingUnchanged
<1>9. Committable'
  BY <1>3, <1>4, <1>6, <1>8 DEF Committable
<1>10. tx' \in Transaction
  BY <1>3, <1>6 DEF Transaction
<1>11. tx' # None
  BY <1>10, NoTransactionAssumption
<1> QED BY <1>2, <1>7, <1>9, <1>10, <1>11
        DEF TransactionInv, TransactionTypeOK, TablesInv, TableTypes, StepRows

\* A transaction that ends leaves the invariant to the tables.
LEMMA ClosedStep ==
  ASSUME TransactionInv, [Next]_vars, Closed
  PROVE  TransactionInv'
<1>1. TablesInv'
  BY TablesStep DEF TransactionInv, TransactionTypeOK, TablesInv
<1> QED BY <1>1 DEF Closed, TransactionInv, TransactionTypeOK, TablesInv, TypeOK,
                    Mirrored

\* An open transaction whose reads are still current may still be committed.
LEMMA OpenStep ==
  ASSUME TransactionInv, [Next]_vars, tx # None, UNCHANGED <<tx, txTables>>,
         StillCurrent, FreshIdentifier
  PROVE  TransactionInv'
<1>1. TypeOK /\ TablesInv
  BY DEF TransactionInv, TransactionTypeOK, TablesInv
<1>2. TablesInv'
  BY <1>1, TablesStep
<1>3. PICK op \in {tx.operation}, t \in {tx.readAt}, d \in {Draft} :
        Pending(op, t, d)
  BY DEF TransactionInv, Committable
<1>4. op \in Operations /\ t \in Time
  BY <1>3 DEF TransactionInv, TransactionTypeOK, Transaction
<1>5. Reads(op, t)' = Reads(op, t)
  BY <1>3 DEF StillCurrent
<1>6. op.type = "start" => executions'[op.execution] = None
  BY <1>3 DEF FreshIdentifier
<1>7. \A e \in Executions : executions[e] # None => executions'[e] # None
  BY <1>1, ExecutionsRemain
<1>8. Pending(op, t, d)'
  BY <1>1, <1>2, <1>3, <1>4, <1>5, <1>6, <1>7, PendingStays
<1>9. Committable'
  BY <1>3, <1>8 DEF Committable, Draft, txTables
<1> QED BY <1>2, <1>9
        DEF TransactionInv, TransactionTypeOK, TablesInv, txTables

\* What is committed is the operation.
LEMMA CommitStep ==
  ASSUME TransactionInv, Commit
  PROVE  Next
<1>1. PICK op \in {tx.operation}, t \in {tx.readAt}, d \in {Draft} :
        Pending(op, t, d)
  BY DEF TransactionInv, Committable, Commit
<1>2. op \in Operations /\ t \in ClockReadings /\ TypeOK
  BY <1>1 DEF TransactionInv, TransactionTypeOK, Transaction, Commit
<1>3. /\ executions' = PutExecutions(d) /\ singletonLocks' = PutLocks(d)
      /\ steps' = PutSteps(d) /\ UNCHANGED <<definitions, now>>
  BY <1>1 DEF Commit, Draft, PutExecutions, PutLocks, PutSteps
<1> QED BY <1>1, <1>2, <1>3, OperationTaken

\* Every step keeps the invariant, and is a step of Orchestrator or none.
LEMMA TransactionStep ==
  ASSUME TransactionInv, [TransactionNext]_txVars
  PROVE  TransactionInv' /\ [Next]_vars
<1>0. TypeOK
  BY DEF TransactionInv, TransactionTypeOK
<1>1. ASSUME NEW op \in Operations, Run(op) PROVE TransactionInv' /\ [Next]_vars
  BY <1>1, RunStep DEF Run
<1>2. CASE Commit
  BY <1>2, CommitStep, ClosedStep DEF Commit
<1>3. CASE Abandon
  BY <1>3, ClosedStep DEF Abandon
<1>4. CASE Beside
  <2>1. Next
    BY <1>0, <1>4, OthersStep DEF Beside
  <2>2. CASE tx # None /\ UNCHANGED <<tx, txTables>> /\ StillCurrent
    BY <1>4, <2>1, <2>2, OpenStep DEF Beside
  <2>3. CASE Closed
    BY <2>1, <2>3, ClosedStep
  <2> QED BY <1>4, <2>1, <2>2, <2>3 DEF Beside
<1>5. CASE UNCHANGED txVars
  <2>1. UNCHANGED vars /\ UNCHANGED <<tx, txTables>>
    BY <1>5 DEF txVars
  <2>2. CASE tx = None
    <3>1. Mirrored'
      BY <2>1, <2>2 DEF TransactionInv, Mirrored, vars, txTables
    <3>2. TablesInv'
      BY <2>1, TablesStep DEF TransactionInv, TransactionTypeOK, TablesInv
    <3> QED BY <2>1, <2>2, <3>1, <3>2
            DEF TransactionInv, TransactionTypeOK, TablesInv, txTables
  <2>3. CASE tx # None
    <3>1. StillCurrent
      BY <2>1, UnchangedReads DEF StillCurrent
    <3>2. FreshIdentifier
      <4>1. PICK op \in {tx.operation}, t \in {tx.readAt}, d \in {Draft} :
              Pending(op, t, d)
        BY <2>3 DEF TransactionInv, Committable
      <4> QED BY <2>1, <4>1
              DEF FreshIdentifier, Pending, StartDraft, StartMakes, vars
    <3> QED BY <2>1, <2>3, <3>1, <3>2, OpenStep
  <2> QED BY <2>1, <2>2, <2>3
<1> QED BY <1>1, <1>2, <1>3, <1>4, <1>5 DEF TransactionNext

LEMMA TransactionInvariant == TransactionSpec => []TransactionInv
<1>1. TransactionInit => TransactionInv
  <2> SUFFICES ASSUME TransactionInit PROVE TransactionInv
    OBVIOUS
  <2>1. TypeOK /\ TablesAgree
    BY BoundsAssumption
       DEF TransactionInit, Init, TypeOK, Time, TablesAgree, Agrees
  <2> QED BY <2>1 DEF TransactionInit, TransactionInv, TransactionTypeOK, TypeOK,
                      Mirrored
<1> QED BY <1>1, TransactionStep, PTL DEF TransactionSpec

\* The tables, as they are and as the slow transaction sees them, and the
\* transaction keep their types.
THEOREM TransactionTypeCorrect == TransactionSpec => []TransactionTypeOK
<1>1. TransactionInv => TransactionTypeOK
  BY DEF TransactionInv
<1> QED BY <1>1, TransactionInvariant, PTL

\* The transactions of the orchestrator are atomic.  An operation that reads
\* the clock, rows and queries, computes, and commits any time later, while any
\* others commit beside it, is the operation taken in one step at the commit,
\* as long as mt refuses a commit whose reads have changed: what each operation
\* reads through its transaction (transactions.retry, or a caller's) is enough.
THEOREM TransactionsAreAtomic == TransactionSpec => AtomicSpec
<1>1. TransactionInit => Init
  BY DEF TransactionInit
<1> QED BY <1>1, TransactionInvariant, TransactionStep, PTL
        DEF TransactionSpec, AtomicSpec, Spec

=============================================================================
