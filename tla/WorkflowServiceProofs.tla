------------------------ MODULE WorkflowServiceProofs ------------------------
(* Machine-checked theorems about WorkflowService: with its sweep thread    *)
(* and its destructor it is still the orchestrator, and quiet once gone.    *)
EXTENDS WorkflowService, OrchestratorProofs

\* A step of the service is a step of the orchestrator, or changes nothing of it.
LEMMA ServiceStep ==
  ASSUME [ServiceNext]_serviceVars PROVE [Next]_vars
<1>1. CASE Forward
  BY <1>1 DEF Forward, Next
<1>2. CASE BeginDestruction \/ NotifySweeper \/ JoinSweeper
  BY <1>2 DEF BeginDestruction, NotifySweeper, JoinSweeper
<1>3. CASE LoopHead \/ AfterWait \/ SweepThrows \/ IntervalElapses
  BY <1>3 DEF LoopHead, AfterWait, SweepThrows, IntervalElapses
<1>4. CASE Sweep
  BY <1>4 DEF Sweep, Next
<1>5. CASE Tick
  BY <1>5 DEF Next
<1>6. CASE UNCHANGED serviceVars
  BY <1>6 DEF serviceVars
<1> QED BY <1>1, <1>2, <1>3, <1>4, <1>5, <1>6 DEF ServiceNext, SweeperStep

\* Whatever the service's owner, its callers and its sweep thread do, the tables
\* change as the orchestrator's operations change them.
THEOREM ServiceImplementsOrchestrator == ServiceSpec => Spec
<1>1. ServiceInit => Init
  BY DEF ServiceInit
<1> QED BY <1>1, ServiceStep, PTL DEF ServiceSpec, Spec

\* So what was proved of the orchestrator holds of the service: its tables
\* agree, its retries keep their input, and its ended executions are frozen.
THEOREM ServiceKeepsTables ==
  ServiceSpec => []OneActiveStep /\ []RetryChain /\ TerminalFrozen
                   /\ LiveLeaseRespected
BY ServiceImplementsOrchestrator, ExecutionAndStepsAgree, RetriesKeepTheirInput,
   EndedExecutionsFrozen, LiveLeasesRespected, PTL

\* The tables, the owner and the sweep thread keep their types.
THEOREM ServiceTypeCorrect == ServiceSpec => []ServiceTypeOK
<1> DEFINE ThreadTypes == /\ owner \in OwnerStates
                          /\ stopping \in BOOLEAN
                          /\ sweeper \in SweeperStates
<1>1. ServiceInit => ThreadTypes
  BY DEF ServiceInit, OwnerStates, SweeperStates
<1>2. ThreadTypes /\ [ServiceNext]_serviceVars => ThreadTypes'
  BY DEF ServiceNext, Forward, BeginDestruction, NotifySweeper, JoinSweeper,
         SweeperStep, LoopHead, AfterWait, Sweep, SweepThrows, IntervalElapses,
         serviceVars, OwnerStates, SweeperStates
<1>3. ServiceSpec => []ThreadTypes
  BY <1>1, <1>2, PTL DEF ServiceSpec
<1>4. TypeOK /\ ThreadTypes => ServiceTypeOK
  BY DEF ServiceTypeOK
<1> QED BY <1>3, <1>4, ServiceImplementsOrchestrator, TypeCorrect, PTL

\* The destructor returns only after the sweep thread has ended.
SweeperJoined == owner = "gone" => sweeper = "exited"

\* However a sweep and the destructor interleave, nothing touches the tables
\* once the destructor has returned: the orchestrator the sweep thread uses
\* may be destroyed then.
THEOREM QuietAfterDestruction == ServiceSpec => QuietOnceGone
<1>1. ServiceInit => SweeperJoined
  BY DEF ServiceInit, SweeperJoined
<1>2. SweeperJoined /\ [ServiceNext]_serviceVars => SweeperJoined'
  BY DEF SweeperJoined, ServiceNext, Forward, BeginDestruction, NotifySweeper,
         JoinSweeper, SweeperStep, LoopHead, AfterWait, Sweep, SweepThrows,
         IntervalElapses, serviceVars
<1>3. ASSUME SweeperJoined, [ServiceNext]_serviceVars, owner = "gone"
      PROVE  UNCHANGED <<definitions, executions, singletonLocks, steps>>
  BY <1>3 DEF SweeperJoined, ServiceNext, Forward, BeginDestruction,
              NotifySweeper, JoinSweeper, SweeperStep, LoopHead, AfterWait,
              Sweep, SweepThrows, IntervalElapses, Tick, serviceVars, vars
<1>4. SweeperJoined /\ [ServiceNext]_serviceVars =>
        [owner = "gone" => UNCHANGED <<definitions, executions, singletonLocks,
                                       steps>>]_serviceVars
  BY <1>3
<1> QED BY <1>1, <1>2, <1>4, PTL DEF ServiceSpec, QuietOnceGone

=============================================================================
