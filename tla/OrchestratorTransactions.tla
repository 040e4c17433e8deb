----------------------- MODULE OrchestratorTransactions -----------------------
(***************************************************************************)
(* Orchestrator takes each operation in one step.  The code takes it in a  *)
(* transaction: it reads rows and queries, reads the clock, computes, puts *)
(* rows, and commits some time later, when mt refuses it if anything read  *)
(* in the transaction has changed.  Whether that amounts to one step       *)
(* depends on what each operation reads through its transaction, which is  *)
(* what this module takes from the code.                                   *)
(*                                                                         *)
(* One transaction is slow.  Whatever commits beside it is an operation of *)
(* Orchestrator in one step: of two slow ones, each sees only the other's  *)
(* commit.  It is retry's transaction, or one that a caller owns and may   *)
(* keep open, commit or abort.  MaxClockLag bounds how long it lasts.      *)
(***************************************************************************)
EXTENDS Orchestrator

CONSTANT MaxLagBeside  \* how long ago the others may have read the clock

ASSUME LagAssumption == MaxLagBeside \in 0..MaxClockLag

VARIABLES
  tx,              \* the slow transaction: what it does, when it read the
                   \* clock, and the rows it put; or None
  txExecutions,      \* the tables as it sees them, or as they are
  txSingletonLocks,  \* while there is none
  txSteps

txTables == <<txExecutions, txSingletonLocks, txSteps>>
txVars == <<vars, tx, txTables>>

InTx == INSTANCE Orchestrator
          WITH executions <- txExecutions, singletonLocks <- txSingletonLocks,
               steps <- txSteps, MaxClockLag <- 0

Others == INSTANCE Orchestrator WITH MaxClockLag <- MaxLagBeside

Operations ==
  [type : {"start"}, workflow : Workflows, execution : Executions]
    \cup [type : {"poll"}, workflow : Workflows, worker : Workers]
    \cup [type : {"report"}, execution : Executions, worker : Workers]
    \cup [type : {"cancel"}, execution : Executions]
    \cup [type : {"sweep"}]

StepKeys == Executions \X Slots

Transaction ==
  [operation : Operations, readAt : Time, executions : SUBSET Executions,
   locks : SUBSET Workflows, steps : SUBSET StepKeys]

ASSUME NoTransactionAssumption == None \notin Transaction

TransactionTypeOK ==
  /\ TypeOK
  /\ txExecutions \in [Executions -> ExecutionRow \cup {None}]
  /\ txSingletonLocks \in [Workflows -> Executions \cup {None}]
  /\ txSteps \in [Executions -> [Slots -> StepRow \cup {None}]]
  /\ tx \in Transaction \cup {None}

TransactionInit ==
  /\ Init
  /\ tx = None
  /\ txExecutions = executions
  /\ txSingletonLocks = singletonLocks
  /\ txSteps = steps

-----------------------------------------------------------------------------
(* What each operation reads through its transaction: rows, and the results *)
(* of its queries.                                                          *)

\* The rows a query by status returns, of workflow w or of any (None).
StepsInStatus(w, statuses) ==
  {<<p, steps[p[1]][p[2]]>> : p \in
     {p \in StepKeys :
        /\ Has(p[1], p[2], statuses)
        /\ w = None \/ executions[p[1]].workflow = w}}

\* Mutant: startWorkflow looks the singleton lock up outside its transaction.
StartReads_LockOutside(w) == definitions[w]

\* The lock, and the execution it points at, only for a singleton.
StartReads(w) ==
  <<definitions[w],
    IF definitions[w] = None \/ ~definitions[w].singleton THEN None
    ELSE <<singletonLocks[w],
           IF singletonLocks[w] = None THEN None
                                       ELSE executions[singletonLocks[w]]>>>>

\* Both queries; the rows got again one by one are among their results.
PollReads(w) ==
  <<definitions[w],
    StepsInStatus(w, {"Pending"}), StepsInStatus(w, {"Running"})>>

\* keepAliveStep, completeStep and failStep read the same three rows.
ReportReads(e) ==
  IF executions[e] = None THEN None
  ELSE <<executions[e], steps[e][CurrentSlot(e)], DefinitionOf(e)>>

CancelReads(e) == <<executions[e], steps[e]>>

\* The query, then the execution of each expired row it returns, and the
\* definition of those that run and are at that row.
SweepReads(t) ==
  LET expired == {p \in StepKeys :
                    /\ Has(p[1], p[2], {"Running"})
                    /\ steps[p[1]][p[2]].leaseExpiresAt # None
                    /\ steps[p[1]][p[2]].leaseExpiresAt <= t}
  IN  <<StepsInStatus(None, {"Running"}),
        {<<p, executions[p[1]],
           IF IsRunning(p[1]) /\ CurrentSlot(p[1]) = p[2]
           THEN DefinitionOf(p[1]) ELSE None>> : p \in expired}>>

Reads(op, t) ==
  CASE op.type = "start"  -> StartReads(op.workflow)
    [] op.type = "poll"   -> PollReads(op.workflow)
    [] op.type = "report" -> ReportReads(op.execution)
    [] op.type = "cancel" -> CancelReads(op.execution)
    [] op.type = "sweep"  -> SweepReads(t)

-----------------------------------------------------------------------------
(* The slow transaction.                                                   *)

\* The operation's own reads, computations and puts, on the tables the
\* transaction sees.
Perform(op) ==
  CASE op.type = "start"  ->
         \E input \in Inputs :
           InTx!StartWorkflow(op.workflow, op.execution, input)
    [] op.type = "poll"   ->
         \E maxResults \in 1..MaxBatch :
           InTx!PollAndClaimWorkflowSteps(op.workflow, op.worker, maxResults)
    [] op.type = "report" -> InTx!Report(op.execution, op.worker)
    [] op.type = "cancel" -> InTx!CancelWorkflow(op.execution)
    [] op.type = "sweep"  -> InTx!SweepExpiredLeases

\* An operation that throws is not committed, so it is left out.
Run(op) ==
  /\ tx = None
  /\ Perform(op)
  /\ tx' = [operation  |-> op,
            readAt     |-> now,
            executions |-> {e \in Executions :
                              txExecutions'[e] # txExecutions[e]},
            locks      |-> {w \in Workflows :
                              txSingletonLocks'[w] # txSingletonLocks[w]},
            steps      |-> {p \in StepKeys :
                              txSteps'[p[1]][p[2]] # txSteps[p[1]][p[2]]}]
  /\ UNCHANGED vars

\* The transaction is over, and its tables are the tables.
Closed ==
  /\ tx' = None
  /\ txExecutions' = executions'
  /\ txSingletonLocks' = singletonLocks'
  /\ txSteps' = steps'

\* The rows it put replace what is there now.
Commit ==
  /\ tx # None
  /\ tx.readAt \in ClockReadings
  /\ executions' = [e \in Executions |->
       IF e \in tx.executions THEN txExecutions[e] ELSE executions[e]]
  /\ singletonLocks' = [w \in Workflows |->
       IF w \in tx.locks THEN txSingletonLocks[w] ELSE singletonLocks[w]]
  /\ steps' = [e \in Executions |-> [k \in Slots |->
       IF <<e, k>> \in tx.steps THEN txSteps[e][k] ELSE steps[e][k]]]
  /\ Closed
  /\ UNCHANGED <<definitions, now>>

\* A caller aborts its transaction.
Abandon ==
  /\ tx # None
  /\ UNCHANGED vars
  /\ Closed

StillCurrent ==
  \E op \in {tx.operation}, t \in {tx.readAt} : Reads(op, t)' = Reads(op, t)

\* generateExecutionId does not return one identifier twice.
FreshIdentifier ==
  tx # None /\ tx.operation.type = "start" =>
    executions'[tx.operation.execution] = None

\* Whatever else commits, and the clock.  If it changes what the transaction
\* has read, mt will refuse the commit, and the transaction is as good as over:
\* retry begins again, and a caller's own throws.
Beside ==
  /\ Others!Next
  /\ FreshIdentifier
  /\ \/ /\ tx # None
        /\ UNCHANGED <<tx, txTables>>
        /\ StillCurrent
     \/ /\ Closed
        /\ tx # None => ~StillCurrent

TransactionNext ==
  \/ \E op \in Operations : Run(op)
  \/ Commit
  \/ Abandon
  \/ Beside

TransactionSpec == TransactionInit /\ [][TransactionNext]_txVars

-----------------------------------------------------------------------------
(* Properties.                                                             *)

\* What a transaction commits is what its operation, taken in one step at the
\* moment of the commit, does to the tables as they are then; only its clock
\* readings are as old as the transaction.
AtomicSpec == Spec

=============================================================================
