--------------------------- MODULE WorkflowService ---------------------------
(***************************************************************************)
(* WorkflowService: forwards calls to the orchestrator, and owns a thread  *)
(* that sweeps expired leases every sweepInterval until the destructor     *)
(* stops it.  sweepMutex_ is held between waits, so a section the code     *)
(* runs under it is one action; the sweep itself runs without it.          *)
(***************************************************************************)
EXTENDS Orchestrator

VARIABLES
  owner,      \* where the thread that owns the service is
  stopping,   \* stopping_
  sweeper     \* where the sweep thread is in runSweepLoop

serviceVars == <<vars, owner, stopping, sweeper>>

\* "notifying" and "joining" are inside the destructor.  A sweep that throws
\* leaves the thread's function, which terminates the process.
OwnerStates == {"using", "notifying", "joining", "gone"}
SweeperStates == {"head", "waiting", "awake", "sweeping", "exited", "terminated"}

ServiceTypeOK ==
  /\ TypeOK
  /\ owner \in OwnerStates
  /\ stopping \in BOOLEAN
  /\ sweeper \in SweeperStates

ServiceInit ==
  /\ Init
  /\ owner = "using"
  /\ stopping = FALSE
  /\ sweeper = "head"

ProcessAlive == sweeper # "terminated"

-----------------------------------------------------------------------------
(* The owner and the callers it serves.                                    *)

\* Calls are forwarded while the service exists.
Forward ==
  /\ ProcessAlive
  /\ owner = "using"
  /\ \/ Register \/ Start \/ Poll
     \/ \E e \in Executions, w \in Workers : Report(e, w)
     \/ \E e \in Executions : CancelWorkflow(e)
  /\ UNCHANGED <<owner, stopping, sweeper>>

\* What a WorkflowWorker of w asks for, again and again.
PolledForOne(w) ==
  /\ ProcessAlive
  /\ owner = "using"
  /\ \E worker \in Workers : PollAndClaimWorkflowSteps(w, worker, 1)
  /\ UNCHANGED <<owner, stopping, sweeper>>

BeginDestruction ==
  /\ ProcessAlive
  /\ owner = "using"
  /\ owner' = "notifying"
  /\ stopping' = TRUE
  /\ UNCHANGED <<vars, sweeper>>

NotifySweeper ==
  /\ ProcessAlive
  /\ owner = "notifying"
  /\ owner' = "joining"
  /\ sweeper' = IF sweeper = "waiting" THEN "awake" ELSE sweeper
  /\ UNCHANGED <<vars, stopping>>

\* Mutant: the destructor does not wait for the thread.
JoinSweeper_Detached ==
  /\ owner = "joining"
  /\ owner' = "gone"
  /\ UNCHANGED <<vars, stopping, sweeper>>

JoinSweeper ==
  /\ owner = "joining"
  /\ sweeper = "exited"
  /\ owner' = "gone"
  /\ UNCHANGED <<vars, stopping, sweeper>>

-----------------------------------------------------------------------------
(* The sweep thread.                                                       *)

\* Mutant: the loop waits before it looks at stopping_.
LoopHead_Unchecked ==
  /\ sweeper = "head"
  /\ sweeper' = "waiting"
  /\ UNCHANGED <<vars, owner, stopping>>

\* The loop's condition, and the wait, whose predicate is looked at first.
LoopHead ==
  /\ sweeper = "head"
  /\ sweeper' = IF stopping THEN "exited" ELSE "waiting"
  /\ UNCHANGED <<vars, owner, stopping>>

IntervalElapses ==
  /\ sweeper = "waiting"
  /\ sweeper' = "awake"
  /\ UNCHANGED <<vars, owner, stopping>>

AfterWait ==
  /\ sweeper = "awake"
  /\ sweeper' = IF stopping THEN "head" ELSE "sweeping"
  /\ UNCHANGED <<vars, owner, stopping>>

Sweep ==
  /\ sweeper = "sweeping"
  /\ sweeper' = "head"
  /\ \/ SweepExpiredLeases
     \/ (\E t \in ClockReadings : Due(t) = {}) /\ UNCHANGED vars
  /\ UNCHANGED <<owner, stopping>>

\* findStepDefinition throws for a due step its workflow no longer has, and
\* nothing between it and the thread's function catches.
SweepThrows ==
  /\ sweeper = "sweeping"
  /\ \E t \in ClockReadings : \E e \in Due(t) :
       ~StepDefined(e, executions[e].currentStepName)
  /\ sweeper' = "terminated"
  /\ UNCHANGED <<vars, owner, stopping>>

SweeperStep == LoopHead \/ AfterWait \/ Sweep \/ SweepThrows

ServiceNext ==
  \/ Forward
  \/ BeginDestruction \/ NotifySweeper \/ JoinSweeper
  \/ SweeperStep \/ IntervalElapses
  \/ Tick /\ UNCHANGED <<owner, stopping, sweeper>>

ServiceSpec == ServiceInit /\ [][ServiceNext]_serviceVars

\* The threads run and the transactions of a sweep commit.  sweepInterval
\* elapses while the service is in use; the destructor is promised no such thing.
\* Some worker of each workflow keeps polling for a step (its pollInterval).
FairServiceSpec ==
  /\ ServiceSpec
  /\ WF_serviceVars(SweeperStep)
  /\ WF_serviceVars(owner = "using" /\ IntervalElapses)
  /\ WF_serviceVars(NotifySweeper)
  /\ WF_serviceVars(JoinSweeper)
  /\ \A w \in Workflows : WF_serviceVars(PolledForOne(w))

-----------------------------------------------------------------------------
(* Properties.                                                             *)

\* Nothing changes the tables once the destructor has returned: the thread
\* that uses the orchestrator is gone, and the orchestrator may go too.
QuietOnceGone == [][owner = "gone" => UNCHANGED <<definitions, executions,
                                      singletonLocks, steps>>]_serviceVars

\* Once begun, the destructor returns, even if the interval never elapses: it
\* waits for a sweep under way, and for no more.  (A sweep that throws ends the
\* process, and the destructor with it.)
DestructorReturns == (owner = "notifying") ~> (owner = "gone" \/ ~ProcessAlive)

\* While the service lives, a claim whose lease has expired does not stay: the
\* sweep or another poll takes the step from the worker that went silent.  (An
\* execution at a step its workflow no longer has makes the sweep throw.)
Lapsed(e, k) ==
  /\ Has(e, k, {"Running"})
  /\ steps[e][k].leaseExpiresAt # None
  /\ steps[e][k].leaseExpiresAt <= now

LapsedLeaseResolved ==
  \A e \in Executions, k \in Slots :
    Lapsed(e, k) ~> (~Lapsed(e, k) \/ owner # "using" \/ ~ProcessAlive)

\* The oldest claimable step of a workflow does not wait behind steps that came
\* later.  It must be the only one of its age (ties go by execution identifier)
\* and have a lease duration: one that has none makes every poll throw that
\* reaches it, and the steps behind it wait until it is canceled.
Served(e, k) ==
  /\ <<e, k>> \in Claimable(executions[e].workflow, now)
  /\ HasLease(e, k[1])
  /\ now + DefinitionOf(e).steps[k[1]].lease \in Time
  /\ \A p \in Claimable(executions[e].workflow, now) \ {<<e, k>>} :
       steps[p[1]][p[2]].createdAt > steps[e][k].createdAt

OldestStepServed ==
  \A e \in Executions, k \in Slots :
    (executions[e] # None /\ Served(e, k)) ~>
      (~Served(e, k) \/ owner # "using" \/ ~ProcessAlive)

\* The sweep thread runs until the service is destroyed, and then ends.
SweepThreadEndsCleanly == sweeper # "terminated"

=============================================================================
