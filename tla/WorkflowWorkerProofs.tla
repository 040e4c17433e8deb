------------------------ MODULE WorkflowWorkerProofs ------------------------
(* Machine-checked theorems about WorkflowWorker, for any number of threads *)
(* and worker ids, shared or not.                                           *)
EXTENDS WorkflowWorker, OrchestratorProofs

-----------------------------------------------------------------------------
(* The threads' own state.                                                 *)

\* A thread has a task from its poll to its report, and a KeepAliveThread
\* exactly while the handler runs.
ThreadsInv ==
  /\ stopping \in [Threads -> BOOLEAN]
  /\ worker \in [Threads -> WorkerStates]
  /\ task \in [Threads -> Tasks \cup {None}]
  /\ pingIn \in [Threads -> (0..KeepAliveInterval) \cup {None}]
  /\ stray \in [Connections -> StrayCall \cup {None}]
  /\ atRisk \in [Threads -> BOOLEAN]
  /\ fate \in [Threads -> Fates]
  /\ \A t \in Threads :
       /\ (task[t] # None) <=> (worker[t] \in {"handed", "handling", "reporting"})
       /\ (pingIn[t] # None) <=> (worker[t] = "handling")

LEMMA FateType ==
  ASSUME NEW w, NEW p, NEW f \in Fates PROVE FateAfter(w, p, f) \in Fates
BY DEF FateAfter, Fates

\* What the orchestrator does to the claims changes fates, and no call.
LEMMA FateTypes ==
  ASSUME fate \in [Threads -> Fates], stray \in [Connections -> StrayCall \cup {None}]
  PROVE  /\ FateOfTasks \in [Threads -> Fates]
         /\ FateOfStrays \in [Connections -> StrayCall \cup {None}]
         /\ \A c \in Connections :
              /\ stray[c] = None => FateOfStrays[c] = None
              /\ stray[c] # None =>
                   /\ FateOfStrays[c] # None
                   /\ FateOfStrays[c].call = stray[c].call
                   /\ FateOfStrays[c].id = stray[c].id
                   /\ FateOfStrays[c].task = stray[c].task
                   /\ FateOfStrays[c].fate =
                        FateAfter(stray[c].id, stray[c].task, stray[c].fate)
<1>1. FateOfTasks \in [Threads -> Fates]
  BY FateType DEF FateOfTasks
<1>2. ASSUME NEW c \in Connections, stray[c] # None
      PROVE  /\ FateOfStrays[c] \in StrayCall
             /\ FateOfStrays[c].call = stray[c].call
             /\ FateOfStrays[c].id = stray[c].id
             /\ FateOfStrays[c].task = stray[c].task
             /\ FateOfStrays[c].fate =
                  FateAfter(stray[c].id, stray[c].task, stray[c].fate)
  <2> DEFINE f == FateAfter(stray[c].id, stray[c].task, stray[c].fate)
  <2>1. stray[c] \in StrayCall
    BY <1>2
  <2>2. f \in Fates
    BY <2>1, FateType DEF StrayCall
  <2>3. FateOfStrays[c] = [stray[c] EXCEPT !.fate = f]
    BY <1>2 DEF FateOfStrays
  <2> HIDE DEF f
  <2>4. /\ FateOfStrays[c] \in StrayCall
        /\ FateOfStrays[c].call = stray[c].call
        /\ FateOfStrays[c].id = stray[c].id
        /\ FateOfStrays[c].task = stray[c].task
        /\ FateOfStrays[c].fate = f
    BY <2>1, <2>2, <2>3 DEF StrayCall
  <2> QED BY <2>4 DEF f
<1>3. ASSUME NEW c \in Connections, stray[c] = None
      PROVE  FateOfStrays[c] = None
  BY <1>3 DEF FateOfStrays
<1>4. FateOfStrays = [c \in Connections |-> FateOfStrays[c]]
  BY DEF FateOfStrays
<1>5. FateOfStrays \in [Connections -> StrayCall \cup {None}]
  BY <1>2, <1>3, <1>4
<1> QED BY <1>1, <1>2, <1>3, <1>5, NoTaskAssumption

LEMMA ThreadsStep ==
  ASSUME ThreadsInv, [WorkerNext]_allVars PROVE ThreadsInv'
<1> USE NoneAssumption, NoTaskAssumption, IntervalAssumption
<1> USE DEF ThreadsInv, WorkerStates, Fates
<1>1. /\ FateOfTasks \in [Threads -> Fates]
      /\ FateOfStrays \in [Connections -> StrayCall \cup {None}]
  BY FateTypes
<1>2. CASE Others
  BY <1>1, <1>2 DEF Others, RecordFates
<1>3. CASE TimePasses
  <2>1. \A t \in Threads : /\ pingIn'[t] \in (0..KeepAliveInterval) \cup {None}
                           /\ pingIn'[t] = None <=> pingIn[t] = None
    BY <1>3 DEF TimePasses
  <2>2. /\ pingIn' \in [Threads -> (0..KeepAliveInterval) \cup {None}]
        /\ atRisk' \in [Threads -> BOOLEAN]
        /\ UNCHANGED <<stopping, worker, task, stray, fate>>
    BY <1>3, <2>1 DEF TimePasses, OwesCall
  <2> QED BY <2>1, <2>2
<1>4. ASSUME NEW t \in Threads, WorkerStep(t)
      PROVE  ThreadsInv'
  <2>1. CASE StartWorker(t)
    BY <2>1 DEF StartWorker
  <2>2. CASE Stop(t)
    BY <2>2 DEF Stop
  <2>3. CASE LoopHead(t)
    BY <2>3 DEF LoopHead
  <2>4. CASE PollClaims(t)
    <3>1. /\ worker[t] = "polling"
          /\ \E p \in Tasks :
               /\ task' = [task EXCEPT ![t] = p]
               /\ atRisk' = [atRisk EXCEPT ![t] = Shared(t, p)]
          /\ worker' = [worker EXCEPT ![t] = "handed"]
          /\ fate' = [FateOfTasks EXCEPT ![t] = "held"]
          /\ stray' = FateOfStrays
          /\ UNCHANGED <<stopping, pingIn>>
      BY <2>4 DEF PollClaims
    <3> QED BY <1>1, <3>1 DEF Shared
  <2>5. CASE PollFindsNothing(t)
    BY <2>5 DEF PollFindsNothing, Forget
  <2>6. CASE Begin(t)
    BY <2>6 DEF Begin
  <2>7. CASE Ping(t)
    <3>1. /\ worker[t] = "handling"
          /\ pingIn' = [pingIn EXCEPT ![t] = KeepAliveInterval]
          /\ UNCHANGED atRisk \/ atRisk' = [atRisk EXCEPT ![t] = TRUE]
          /\ fate' = FateOfTasks /\ stray' = FateOfStrays
          /\ UNCHANGED <<stopping, worker, task>>
      BY <2>7 DEF Ping, RecordFates
    <3>2. KeepAliveInterval \in 0..KeepAliveInterval /\ KeepAliveInterval # None
      OBVIOUS
    <3>3. /\ pingIn' \in [Threads -> (0..KeepAliveInterval) \cup {None}]
          /\ \A u \in Threads : pingIn'[u] # None <=> pingIn[u] # None
      BY <3>1, <3>2
    <3>4. /\ atRisk' \in [Threads -> BOOLEAN]
          /\ fate' \in [Threads -> Fates]
          /\ stray' \in [Connections -> StrayCall \cup {None}]
      BY <1>1, <3>1
    <3> QED BY <3>1, <3>3, <3>4
  <2>8. CASE HandlerEnds(t)
    BY <2>8 DEF HandlerEnds
  <2>9. CASE SendReport(t)
    <3>1. /\ worker[t] = "reporting"
          /\ worker' = [worker EXCEPT ![t] = "head"]
          /\ fate' = [FateOfTasks EXCEPT ![t] = "held"]
          /\ stray' = FateOfStrays
          /\ Forget(t)
          /\ UNCHANGED stopping
      BY <2>9 DEF SendReport
    <3> QED BY <1>1, <3>1 DEF Forget
  <2>10. ASSUME NEW c \in Connections, GiveUp(t, c)
         PROVE  ThreadsInv'
    <3>1. worker[t] \in {"handling", "reporting"} => task[t] \in Tasks
      OBVIOUS
    <3>2. \A x \in {"ping", "report"} : worker[t] \in {"handling", "reporting"} =>
            [call |-> x, id |-> IdOf[t], task |-> task[t], fate |-> fate[t]]
              \in StrayCall
      BY <3>1, IdAssumption DEF StrayCall
    <3>3. stray' \in [Connections -> StrayCall \cup {None}]
      BY <2>10, <3>2 DEF GiveUp
    <3>4. CASE /\ worker[t] = "handling"
               /\ pingIn' = [pingIn EXCEPT ![t] = KeepAliveInterval]
               /\ atRisk' = [atRisk EXCEPT ![t] = TRUE]
               /\ UNCHANGED <<worker, task, fate, stopping>>
      <4>1. KeepAliveInterval \in 0..KeepAliveInterval /\ KeepAliveInterval # None
        OBVIOUS
      <4>2. /\ pingIn' \in [Threads -> (0..KeepAliveInterval) \cup {None}]
            /\ \A u \in Threads : pingIn'[u] # None <=> pingIn[u] # None
        BY <3>4, <4>1
      <4> QED BY <3>3, <3>4, <4>2
    <3>5. CASE /\ worker' = [worker EXCEPT ![t] = "head"]
               /\ fate' = [fate EXCEPT ![t] = "held"]
               /\ Forget(t)
               /\ UNCHANGED stopping
      BY <3>3, <3>5 DEF Forget
    <3> QED BY <2>10, <3>4, <3>5 DEF GiveUp
  <2>11. CASE Crash(t)
    BY <2>11 DEF Crash, Forget
  <2> QED BY <1>4, <2>1, <2>2, <2>3, <2>4, <2>5, <2>6, <2>7, <2>8, <2>9, <2>10,
             <2>11 DEF WorkerStep
<1>5. ASSUME NEW c \in Connections, TakeStray(c)
      PROVE  ThreadsInv'
  <2>1. /\ stray' = [FateOfStrays EXCEPT ![c] = None]
        /\ fate' = FateOfTasks
        /\ UNCHANGED <<stopping, worker, task, pingIn, atRisk>>
    BY <1>5 DEF TakeStray
  <2>2. /\ fate' \in [Threads -> Fates]
        /\ stray' \in [Connections -> StrayCall \cup {None}]
    BY <1>1, <2>1
  <2> QED BY <2>1, <2>2
<1>6. CASE UNCHANGED allVars
  BY <1>6 DEF allVars, workerVars
<1> QED BY <1>2, <1>3, <1>4, <1>5, <1>6 DEF WorkerNext

LEMMA ThreadsInvariant == WorkerSpec => []ThreadsInv
<1>1. WorkerInit => ThreadsInv
  BY DEF WorkerInit, ThreadsInv, WorkerStates, Fates
<1> QED BY <1>1, ThreadsStep, PTL DEF WorkerSpec

\* A call about a task is an operation of the orchestrator.
LEMMA CallsAreReports ==
  ASSUME NEW p \in Tasks, NEW w \in Workers, PingTask(p, w) \/ ReportTask(p, w)
  PROVE  Report(p[1], w)
<1>1. p[1] \in Executions /\ p[2][1] \in StepNames
  BY DEF Tasks, Slots
<1> QED BY <1>1 DEF PingTask, ReportTask, Report

\* What the threads do to the tables is what the orchestrator's operations do.
LEMMA WorkerStepMaps ==
  ASSUME ThreadsInv, [WorkerNext]_allVars PROVE [Next]_vars
<1>1. CASE Others
  <2>1. ASSUME NEW id \in Workers, NEW w \in Workflows,
               PollAndClaimWorkflowSteps(w, id, 1)
        PROVE  Poll
    BY <2>1, OneStepAssumption, BoundsAssumption DEF Poll
  <2> QED BY <1>1, <2>1 DEF Others, Next
<1>2. CASE TimePasses
  BY <1>2 DEF TimePasses, Next
<1>3. ASSUME NEW t \in Threads, WorkerStep(t) PROVE [Next]_vars
  <2>1. IdOf[t] \in Workers
    BY IdAssumption
  <2>2. CASE PollClaims(t)
    <3>1. \E w \in Workflows : PollAndClaimWorkflowSteps(w, IdOf[t], 1)
      BY <2>2 DEF PollClaims
    <3> QED BY <2>1, <3>1, OneStepAssumption, BoundsAssumption DEF Poll, Next
  <2>3. CASE Ping(t) \/ SendReport(t)
    <3>1. task[t] \in Tasks
      BY <2>3 DEF ThreadsInv, Ping, SendReport
    <3>2. \/ PingTask(task[t], IdOf[t]) \/ ReportTask(task[t], IdOf[t])
          \/ UNCHANGED vars
      BY <2>3 DEF Ping, SendReport
    <3>3. task[t][1] \in Executions
      BY <3>1 DEF Tasks
    <3> QED BY <2>1, <3>1, <3>2, <3>3, CallsAreReports DEF Next
  <2> QED BY <1>3, <2>2, <2>3
          DEF WorkerStep, StartWorker, Stop, LoopHead, PollFindsNothing, Begin,
              HandlerEnds, GiveUp, Crash
<1>4. ASSUME NEW c \in Connections, TakeStray(c) PROVE [Next]_vars
  <2>1. stray[c].task \in Tasks /\ stray[c].id \in Workers
    BY <1>4 DEF ThreadsInv, TakeStray, StrayCall
  <2>2. \/ PingTask(stray[c].task, stray[c].id)
        \/ ReportTask(stray[c].task, stray[c].id)
        \/ UNCHANGED vars
    BY <1>4 DEF TakeStray
  <2>3. stray[c].task[1] \in Executions
    BY <2>1 DEF Tasks
  <2> QED BY <2>1, <2>2, <2>3, CallsAreReports DEF Next
<1>5. CASE UNCHANGED allVars
  BY <1>5 DEF allVars
<1> QED BY <1>1, <1>2, <1>3, <1>4, <1>5 DEF WorkerNext

\* Worker threads that crash, give up calls and take them late make no step the
\* orchestrator does not: what is proved of it holds with them.
THEOREM WorkersImplementOrchestrator == WorkerSpec => Spec
<1>1. WorkerInit => Init
  BY DEF WorkerInit
<1> QED BY <1>1, WorkerStepMaps, ThreadsInvariant, PTL DEF WorkerSpec, Spec

\* So calls that are late, lost or belated, and threads that share an id or die,
\* leave the tables in agreement, ended executions frozen, and a row under a live
\* lease to its owner.
THEOREM WorkersKeepTables ==
  WorkerSpec => []OneActiveStep /\ []RetryChain /\ TerminalFrozen
                  /\ LiveLeaseRespected
BY WorkersImplementOrchestrator, ExecutionAndStepsAgree, RetriesKeepTheirInput,
   EndedExecutionsFrozen, LiveLeasesRespected, PTL

\* The tables and the threads keep their types.
THEOREM WorkerTypeCorrect == WorkerSpec => []WorkerTypeOK
<1>1. TypeOK /\ ThreadsInv => WorkerTypeOK
  BY DEF ThreadsInv, WorkerTypeOK
<1> QED BY <1>1, WorkersImplementOrchestrator, TypeCorrect, ThreadsInvariant, PTL

-----------------------------------------------------------------------------
(* What became of a claim.                                                 *)

\* While the claim on task p is held, the rows show it; once it is lost, and
\* until its step is claimed again, no row of the step is claimed under w.
FateShown(w, p, f, rows) ==
  /\ f = "held" => HoldsTask(w, p, rows)
  /\ f = "lost" => \A k \in Slots : k[1] = p[2][1] =>
                     ~HoldsTask(w, <<p[1], k>>, rows)

FatesShown ==
  /\ \A t \in Threads : task[t] # None =>
       FateShown(IdOf[t], task[t], fate[t], steps)
  /\ \A c \in Connections : stray[c] # None =>
       FateShown(stray[c].id, stray[c].task, stray[c].fate, steps)

LEMMA TaskParts ==
  ASSUME NEW p \in Tasks
  PROVE  /\ p = <<p[1], p[2]>>
         /\ p[1] \in Executions /\ p[2] \in Slots /\ p[2][1] \in StepNames
BY DEF Tasks, Slots

\* Two claimed rows of one execution are one row.
LEMMA OneHeldRow ==
  ASSUME NEW e \in Executions, Agrees(e), NEW j \in Slots, NEW k \in Slots,
         NEW v, NEW w,
         HoldsTask(v, <<e, j>>, steps), HoldsTask(w, <<e, k>>, steps)
  PROVE  j = k /\ v = w
<1>1. Active(e, j) /\ Active(e, k)
  BY DEF HoldsTask, Active, Has
<1>2. j = CurrentSlot(e) /\ k = CurrentSlot(e)
  BY <1>1 DEF Agrees, Active, Has
<1> QED BY <1>2 DEF HoldsTask

\* The history kept of a claim stays true in every step.
LEMMA FateStep ==
  ASSUME TablesInv, NEW w \in Workers, NEW p \in Tasks, NEW f \in Fates,
         FateShown(w, p, f, steps)
  PROVE  FateShown(w, p, FateAfter(w, p, f), steps')
<1> DEFINE e == p[1]
           g == FateAfter(w, p, f)
<1>1. e \in Executions /\ p[2] \in Slots /\ p = <<e, p[2]>> /\ Agrees(e)
  BY TaskParts DEF TablesInv, TablesAgree
<1>2. CASE g = "held"
  <2>1. HoldsTask(w, p, steps')
    BY <1>2 DEF FateAfter
  <2> QED BY <1>2, <2>1 DEF FateShown
<1>3. CASE g = "lost"
  <2>1. /\ ~ClaimedAgain(w, p)
        /\ \/ f = "held" /\ ~HoldsTask(w, p, steps')
           \/ f = "lost"
    <3>1. ~ClaimedAgain(w, p)
      BY <1>3 DEF FateAfter
    <3>2. CASE f = "held"
      BY <1>3, <3>1, <3>2 DEF FateAfter
    <3>3. CASE f # "held"
      <4>1. g = f
        BY <3>1, <3>3 DEF FateAfter
      <4> QED BY <1>3, <3>1, <4>1
    <3> QED BY <3>2, <3>3
  <2>2. ASSUME NEW k \in Slots, k[1] = p[2][1], HoldsTask(w, <<e, k>>, steps')
        PROVE  FALSE
    <3>1. HoldsTask(w, <<e, k>>, steps)
      <4>1. CASE steps'[e][k] = steps[e][k]
        BY <2>2, <4>1 DEF HoldsTask
      <4>2. CASE steps'[e][k] # steps[e][k]
        BY <2>1, <2>2, <4>2 DEF ClaimedAgain
      <4> QED BY <4>1, <4>2
    <3>2. CASE f = "held"
      <4>1. HoldsTask(w, <<e, p[2]>>, steps)
        BY <1>1, <3>2 DEF FateShown
      <4>2. k = p[2]
        BY <1>1, <3>1, <4>1, OneHeldRow
      <4> QED BY <1>1, <2>1, <2>2, <3>2, <4>2
    <3>3. CASE f = "lost"
      BY <2>2, <3>1, <3>3 DEF FateShown
    <3> QED BY <2>1, <3>2, <3>3
  <2> QED BY <1>3, <2>2 DEF FateShown
<1>4. CASE g \notin {"held", "lost"}
  BY <1>4 DEF FateShown
<1> QED BY <1>2, <1>3, <1>4

\* A poll that changes a row claims it for the worker it polls for, and the row
\* was on offer.
LEMMA PollClaimsRow ==
  ASSUME NEW w, NEW id, NEW n,
         PollAndClaimWorkflowSteps(w, id, n),
         NEW p \in Tasks, steps'[p[1]][p[2]] # steps[p[1]][p[2]]
  PROVE  /\ \E t \in ClockReadings :
              /\ p \in Claimable(w, t)
              /\ HasLease(p[1], p[2][1])
              /\ steps'[p[1]][p[2]] =
                   Claimed(steps[p[1]][p[2]], id,
                           t + DefinitionOf(p[1]).steps[p[2][1]].lease)
              /\ t + DefinitionOf(p[1]).steps[p[2][1]].lease \in Time
         /\ Active(p[1], p[2])
<1>0. PICK t \in ClockReadings : \E batch \in SUBSET Claimable(w, t) :
        /\ \A q \in batch : HasLease(q[1], q[2][1])
        /\ \A q \in batch : t + DefinitionOf(q[1]).steps[q[2][1]].lease \in Time
        /\ steps' = [e \in Executions |-> [k \in Slots |->
             IF <<e, k>> \in batch
             THEN Claimed(steps[e][k], id,
                          t + DefinitionOf(e).steps[k[1]].lease)
             ELSE steps[e][k]]]
  BY DEF PollAndClaimWorkflowSteps
<1>1. PICK batch \in SUBSET Claimable(w, t) :
        /\ \A q \in batch : HasLease(q[1], q[2][1])
        /\ \A q \in batch : t + DefinitionOf(q[1]).steps[q[2][1]].lease \in Time
        /\ steps' = [e \in Executions |-> [k \in Slots |->
             IF <<e, k>> \in batch
             THEN Claimed(steps[e][k], id,
                          t + DefinitionOf(e).steps[k[1]].lease)
             ELSE steps[e][k]]]
  BY <1>0
<1>2. p[1] \in Executions /\ p[2] \in Slots /\ p = <<p[1], p[2]>>
  BY TaskParts
<1>3. steps'[p[1]][p[2]] =
        IF p \in batch
        THEN Claimed(steps[p[1]][p[2]], id,
                     t + DefinitionOf(p[1]).steps[p[2][1]].lease)
        ELSE steps[p[1]][p[2]]
  BY <1>1, <1>2
<1>4. p \in batch
  BY <1>3
<1>5. Active(p[1], p[2])
  BY <1>4 DEF Claimable, IsClaimable, Active, Has
<1> QED BY <1>1, <1>3, <1>4, <1>5

\* What a claimed row looks like.
LEMMA ClaimHolds ==
  ASSUME TypeOK, NEW p \in Tasks, Active(p[1], p[2]), NEW id \in Workers,
         NEW expiry \in Time,
         steps'[p[1]][p[2]] = Claimed(steps[p[1]][p[2]], id, expiry)
  PROVE  /\ HoldsTask(id, p, steps')
         /\ steps'[p[1]][p[2]].leaseExpiresAt = expiry
<1>1. steps[p[1]][p[2]] \in StepRow
  BY TaskParts DEF TypeOK, Active, Has
<1>2. Claimed(steps[p[1]][p[2]], id, expiry).leaseExpiresAt = expiry
  BY <1>1 DEF Claimed, StepRow
<1> QED BY <1>1, <1>2, ClaimedRow DEF HoldsTask

LEMMA FatesStep ==
  ASSUME TablesInv, ThreadsInv, FatesShown, [WorkerNext]_allVars
  PROVE  FatesShown'
<1>0. \A t \in Threads :
        /\ IdOf[t] \in Workers /\ fate[t] \in Fates
        /\ task[t] \in Tasks \cup {None}
  BY IdAssumption DEF ThreadsInv
<1>00. \A c \in Connections : stray[c] # None =>
         stray[c].id \in Workers /\ stray[c].task \in Tasks
           /\ stray[c].fate \in Fates
  BY DEF ThreadsInv, StrayCall
<1>1. /\ \A t \in Threads : task[t] # None =>
           FateShown(IdOf[t], task[t], FateOfTasks[t], steps')
      /\ \A c \in Connections : FateOfStrays[c] # None =>
           FateShown(FateOfStrays[c].id, FateOfStrays[c].task,
                     FateOfStrays[c].fate, steps')
  <2>1. ASSUME NEW t \in Threads, task[t] # None
        PROVE  FateShown(IdOf[t], task[t], FateOfTasks[t], steps')
    <3>1. FateOfTasks[t] = FateAfter(IdOf[t], task[t], fate[t])
      BY <2>1 DEF FateOfTasks
    <3> QED BY <1>0, <2>1, <3>1, FateStep DEF FatesShown
  <2>2. ASSUME NEW c \in Connections, FateOfStrays[c] # None
        PROVE  FateShown(FateOfStrays[c].id, FateOfStrays[c].task,
                         FateOfStrays[c].fate, steps')
    <3>1. /\ stray[c] # None
          /\ FateOfStrays[c].id = stray[c].id
          /\ FateOfStrays[c].task = stray[c].task
          /\ FateOfStrays[c].fate =
               FateAfter(stray[c].id, stray[c].task, stray[c].fate)
      BY <2>2, FateTypes DEF ThreadsInv
    <3> QED BY <1>00, <3>1, FateStep DEF FatesShown
  <2> QED BY <2>1, <2>2
<1>2. /\ FateOfTasks \in [Threads -> Fates]
      /\ FateOfStrays \in [Connections -> StrayCall \cup {None}]
  BY FateTypes DEF ThreadsInv
<1>3. ASSUME UNCHANGED task, fate' = FateOfTasks, stray' = FateOfStrays
      PROVE  FatesShown'
  BY <1>1, <1>3 DEF FatesShown
<1>4. ASSUME UNCHANGED <<steps, task, stray, fate>>
      PROVE  FatesShown'
  BY <1>4 DEF FatesShown
<1>5. CASE Others
  BY <1>3, <1>5 DEF Others, RecordFates
<1>6. CASE TimePasses \/ UNCHANGED allVars
  BY <1>4, <1>6 DEF TimePasses, Tick, allVars, workerVars, vars
<1>7. ASSUME NEW t \in Threads, WorkerStep(t)
      PROVE  FatesShown'
  <2>1. CASE StartWorker(t) \/ Stop(t) \/ LoopHead(t) \/ Begin(t) \/ HandlerEnds(t)
    BY <1>4, <2>1 DEF StartWorker, Stop, LoopHead, Begin, HandlerEnds, vars
  <2>2. CASE PollClaims(t)
    <3>1. PICK p \in Tasks : /\ steps'[p[1]][p[2]] # steps[p[1]][p[2]]
                             /\ task' = [task EXCEPT ![t] = p]
      BY <2>2 DEF PollClaims
    <3>2. HoldsTask(IdOf[t], p, steps')
      <4>1. PICK w \in Workflows : PollAndClaimWorkflowSteps(w, IdOf[t], 1)
        BY <2>2 DEF PollClaims
      <4>2. Active(p[1], p[2])
        BY <3>1, <4>1, PollClaimsRow
      <4>3. PICK expiry \in Time :
              steps'[p[1]][p[2]] = Claimed(steps[p[1]][p[2]], IdOf[t], expiry)
        BY <3>1, <4>1, PollClaimsRow
      <4> QED BY <1>0, <4>2, <4>3, ClaimHolds DEF TablesInv
    <3>3. /\ fate' = [FateOfTasks EXCEPT ![t] = "held"]
          /\ stray' = FateOfStrays
      BY <2>2 DEF PollClaims
    <3>4. FateShown(IdOf[t], task'[t], fate'[t], steps')
      <4>1. task'[t] = p /\ fate'[t] = "held"
        BY <1>2, <3>1, <3>3 DEF ThreadsInv
      <4> QED BY <3>2, <4>1 DEF FateShown
    <3>5. ASSUME NEW u \in Threads \ {t}, task'[u] # None
          PROVE  FateShown(IdOf[u], task'[u], fate'[u], steps')
      <4>1. task'[u] = task[u] /\ fate'[u] = FateOfTasks[u]
        BY <1>2, <3>1, <3>3 DEF ThreadsInv
      <4> QED BY <1>1, <3>5, <4>1
    <3> QED BY <1>1, <3>3, <3>4, <3>5 DEF FatesShown
  <2>3. CASE PollFindsNothing(t) \/ Crash(t)
    <3>1. /\ task' = [task EXCEPT ![t] = None]
          /\ fate' = [fate EXCEPT ![t] = "held"]
          /\ UNCHANGED <<steps, stray>>
      BY <2>3 DEF PollFindsNothing, Crash, Forget, vars
    <3> QED BY <3>1 DEF ThreadsInv, FatesShown
  <2>4. CASE Ping(t)
    BY <1>3, <2>4 DEF Ping, RecordFates
  <2>5. CASE SendReport(t)
    <3>1. /\ task' = [task EXCEPT ![t] = None]
          /\ fate' = [FateOfTasks EXCEPT ![t] = "held"]
          /\ stray' = FateOfStrays
      BY <2>5 DEF SendReport, Forget
    <3> QED BY <1>1, <1>2, <3>1 DEF ThreadsInv, FatesShown
  <2>6. ASSUME NEW c \in Connections, GiveUp(t, c)
        PROVE  FatesShown'
    <3>1. /\ UNCHANGED steps
          /\ \A u \in Threads \ {t} : task'[u] = task[u] /\ fate'[u] = fate[u]
          /\ \A d \in Connections \ {c} : stray'[d] = stray[d]
          /\ \/ task'[t] = None
             \/ task'[t] = task[t] /\ fate'[t] = fate[t]
          /\ task[t] # None
          /\ stray'[c].id = IdOf[t]
          /\ stray'[c].task = task[t] /\ stray'[c].fate = fate[t]
      BY <2>6 DEF GiveUp, Forget, ThreadsInv, vars
    <3> QED BY <3>1 DEF FatesShown
  <2> QED BY <1>7, <2>1, <2>2, <2>3, <2>4, <2>5, <2>6 DEF WorkerStep
<1>8. ASSUME NEW c \in Connections, TakeStray(c)
      PROVE  FatesShown'
  <2>1. /\ stray' = [FateOfStrays EXCEPT ![c] = None]
        /\ fate' = FateOfTasks
        /\ UNCHANGED task
    BY <1>8 DEF TakeStray
  <2> QED BY <1>1, <1>2, <2>1 DEF FatesShown
<1> QED BY <1>5, <1>6, <1>7, <1>8 DEF WorkerNext

LEMMA FatesInvariant == WorkerSpec => []FatesShown
<1>1. WorkerInit => FatesShown
  BY DEF WorkerInit, FatesShown
<1>2. WorkerSpec => []TablesInv
  BY WorkersImplementOrchestrator, TablesInvariant, PTL
<1> QED BY <1>1, <1>2, FatesStep, ThreadsInvariant, PTL DEF WorkerSpec

\* A call that is taken finds a row of its step claimed under its worker id.
LEMMA CallFindsClaim ==
  ASSUME TypeOK, NEW p \in Tasks, NEW w \in Workers,
         PingTask(p, w) \/ ReportTask(p, w)
  PROVE  /\ CurrentSlot(p[1]) \in Slots
         /\ CurrentSlot(p[1])[1] = p[2][1]
         /\ HoldsTask(w, <<p[1], CurrentSlot(p[1])>>, steps)
<1>1. p[1] \in Executions /\ p[2][1] \in StepNames
  BY TaskParts
<1>2. PICK t \in ClockReadings : MayReport(p[1], p[2][1], w, t)
  BY DEF PingTask, ReportTask, KeepAliveStep, CompleteWorkflow, CompleteStep,
         FailStep
<1> QED BY <1>1, <1>2, CurrentSlotType
        DEF MayReport, IsRunning, OwnsClaim, HoldsTask, CurrentSlot

\* However late a ping or a report is taken, and whatever happened to the claim
\* it is about: when the claim is lost it changes nothing.  Attempts, later
\* visits of the step and claims of other workers are told apart by worker id
\* alone, so a later claim of the same id and step is the one exception.
THEOREM LostClaimsTouchNothing == WorkerSpec => LostTaskUntouched
<1>0. ASSUME TablesInv, NEW p \in Tasks, NEW w \in Workers,
             FateShown(w, p, "lost", steps), PingTask(p, w) \/ ReportTask(p, w)
      PROVE  FALSE
  BY <1>0, CallFindsClaim DEF FateShown, TablesInv
<1>1. ASSUME TablesInv, ThreadsInv, FatesShown
      PROVE  /\ \A t \in Threads :
                  fate[t] = "lost" /\ (Ping(t) \/ SendReport(t))
                    => UNCHANGED vars
             /\ \A c \in Connections :
                  stray[c] # None /\ stray[c].fate = "lost" /\ TakeStray(c)
                    => UNCHANGED vars
  <2>1. ASSUME NEW t \in Threads, fate[t] = "lost", Ping(t) \/ SendReport(t)
        PROVE  UNCHANGED vars
    <3>1. task[t] # None /\ task[t] \in Tasks /\ IdOf[t] \in Workers
      BY <1>1, <2>1, IdAssumption DEF ThreadsInv, Ping, SendReport
    <3>2. FateShown(IdOf[t], task[t], "lost", steps)
      BY <1>1, <2>1, <3>1 DEF FatesShown
    <3> QED BY <1>0, <1>1, <2>1, <3>1, <3>2 DEF Ping, SendReport
  <2>2. ASSUME NEW c \in Connections, stray[c] # None, stray[c].fate = "lost",
               TakeStray(c)
        PROVE  UNCHANGED vars
    <3>1. stray[c].task \in Tasks /\ stray[c].id \in Workers
      BY <1>1, <2>2 DEF ThreadsInv, StrayCall
    <3>2. FateShown(stray[c].id, stray[c].task, "lost", steps)
      BY <1>1, <2>2 DEF FatesShown
    <3> QED BY <1>0, <1>1, <2>2, <3>1, <3>2 DEF TakeStray
  <2> QED BY <2>1, <2>2
<1>2. TablesInv /\ ThreadsInv /\ FatesShown =>
        [/\ \A t \in Threads :
              fate[t] = "lost" /\ (Ping(t) \/ SendReport(t)) => UNCHANGED vars
         /\ \A c \in Connections :
              stray[c] # None /\ stray[c].fate = "lost" /\ TakeStray(c)
                => UNCHANGED vars]_allVars
  BY <1>1
<1>3. WorkerSpec => []TablesInv
  BY WorkersImplementOrchestrator, TablesInvariant, PTL
<1> QED BY <1>2, <1>3, ThreadsInvariant, FatesInvariant, PTL
        DEF WorkerSpec, LostTaskUntouched

-----------------------------------------------------------------------------
(* A claim whose thread is on time.  The invariant adds to OnTimeKeepsClaim *)
(* how long the lease still lasts: at least until the next ping is due.     *)

\* Every lease outlasts the interval between pings, and what a transaction
\* takes to commit after it has read the clock.
LeaseOutlastsInterval ==
  \A w \in Workflows : \A d \in Definitions[w] : \A s \in StepNames :
    d.steps[s] # None /\ d.steps[s].lease # None =>
      d.steps[s].lease > KeepAliveInterval + MaxClockLag

\* Task p is claimed under w for longer than slack, or it was cancelled.
Kept(w, p, slack) ==
  \/ /\ HoldsTask(w, p, steps)
     /\ steps[p[1]][p[2]].leaseExpiresAt \in Time
     /\ steps[p[1]][p[2]].leaseExpiresAt > now + slack
  \/ /\ Has(p[1], p[2], {"Canceled"})
     /\ executions[p[1]] # None /\ ~IsRunning(p[1])

\* The ticks thread t can let pass before it owes its next call.
Slack(t) ==
  IF worker[t] = "handed" THEN KeepAliveInterval
  ELSE IF worker[t] = "handling" THEN pingIn[t] ELSE 0

ClaimsKept ==
  \A t \in Threads : task[t] # None /\ ~atRisk[t] =>
    /\ Kept(IdOf[t], task[t], Slack(t))
    /\ ~Shared(t, task[t])

\* What leaves a claim of task p under w, and its lease, to its owner.
Spares(w, p) ==
  \/ Register \/ Start \/ SweepExpiredLeases \/ UNCHANGED vars
  \/ \E v \in Workflows, id \in Workers : PollAndClaimWorkflowSteps(v, id, 1)
  \/ \E e \in Executions : CancelWorkflow(e)
  \/ \E e \in Executions, id \in Workers \ {w} : Report(e, id)
  \/ \E q \in Tasks, id \in Workers :
       PingTask(q, id) \/ (ReportTask(q, id) /\ ~(id = w /\ SameStep(q, p)))

LEMMA SparingSteps ==
  ASSUME NEW w, NEW p, Spares(w, p) PROVE [Next]_vars /\ now' = now
<1>1. ASSUME NEW v \in Workflows, NEW id \in Workers,
             PollAndClaimWorkflowSteps(v, id, 1)
      PROVE  Poll /\ now' = now
  BY <1>1, OneStepAssumption, BoundsAssumption
     DEF Poll, PollAndClaimWorkflowSteps
<1>2. ASSUME NEW e \in Executions, NEW id \in Workers, Report(e, id)
      PROVE  Next /\ now' = now
  BY <1>2 DEF Next, Report, KeepAliveStep, CompleteWorkflow, CompleteStep,
              FailStep
<1>3. ASSUME NEW q \in Tasks, NEW id \in Workers,
             PingTask(q, id) \/ ReportTask(q, id)
      PROVE  Next /\ now' = now
  BY <1>2, <1>3, CallsAreReports, TaskParts
<1>4. CASE Register \/ Start \/ SweepExpiredLeases \/ UNCHANGED vars
  BY <1>4 DEF Next, Register, RegisterWorkflowDefinition, Start, StartWorkflow,
              SweepExpiredLeases, vars
<1>5. CASE \E e \in Executions : CancelWorkflow(e)
  BY <1>5 DEF Next, CancelWorkflow
<1> QED BY <1>1, <1>2, <1>3, <1>4, <1>5 DEF Spares, Next

\* The lease of a step that is defined is one that was registered.
LEMMA LeaseIsLong ==
  ASSUME TypeOK, Registered, LeaseOutlastsInterval, NEW e \in Executions,
         executions[e] # None, DefinitionOf(e) # None,
         NEW s \in StepNames, HasLease(e, s), NEW t \in ClockReadings
  PROVE  /\ DefinitionOf(e).steps[s].lease \in Nat
         /\ t + DefinitionOf(e).steps[s].lease > now + KeepAliveInterval
<1> DEFINE w == executions[e].workflow
           l == definitions[w].steps[s].lease
<1>1. /\ w \in Workflows
      /\ definitions[w] \in Definition /\ definitions[w] \in Definitions[w]
  BY CurrentSlotType DEF TypeOK, Registered, DefinitionOf
<1>2. l \in Nat /\ l > KeepAliveInterval + MaxClockLag
  BY <1>1 DEF LeaseOutlastsInterval, HasLease, StepDefined, DefinitionOf,
              Definition, StepDefinition
<1>3. t \in Nat /\ now \in Nat /\ now <= t + MaxClockLag
  BY DEF ClockReadings, Time, TypeOK, BoundsAssumption
<1> HIDE DEF l
<1>4. t + l > now + KeepAliveInterval
  BY <1>2, <1>3, BoundsAssumption, IntervalAssumption
<1> QED BY <1>2, <1>4 DEF l, DefinitionOf

\* A ping that is taken keeps the claim and renews its lease.
LEMMA PingRenews ==
  ASSUME TablesInv, Registered, LeaseOutlastsInterval, NEW q \in Tasks,
         NEW w \in Workers, PingTask(q, w), NEW p \in Tasks, p[1] = q[1],
         p[2] = CurrentSlot(p[1])
  PROVE  Kept(w, p, KeepAliveInterval)'
<1> DEFINE e == p[1]
           c == CurrentSlot(e)
<1>1. e \in Executions /\ q[2][1] \in StepNames /\ p[2] \in Slots
  BY TaskParts
<1>2. PICK t \in ClockReadings, u \in ClockReadings :
        /\ MayReport(e, q[2][1], w, t)
        /\ HasLease(e, q[2][1])
        /\ u + DefinitionOf(e).steps[q[2][1]].lease \in Time
        /\ steps' = [steps EXCEPT ![e][c].leaseExpiresAt =
                       u + DefinitionOf(e).steps[q[2][1]].lease]
        /\ now' = now
  BY DEF PingTask, KeepAliveStep
<1> DEFINE x == u + DefinitionOf(e).steps[q[2][1]].lease
<1>3. executions[e] # None /\ DefinitionOf(e) # None
  BY <1>2 DEF MayReport, IsRunning
<1>4. x > now + KeepAliveInterval
  BY <1>1, <1>2, <1>3, LeaseIsLong DEF TablesInv
<1> HIDE DEF x
<1>5. steps[e][c] \in StepRow /\ steps[e][c].status = "Running"
      /\ steps[e][c].workerId = w
  BY <1>1, <1>2 DEF MayReport, OwnsClaim, TablesInv, TypeOK
<1>6. steps'[e][c] = [steps[e][c] EXCEPT !.leaseExpiresAt = x]
  BY <1>1, <1>2 DEF TablesInv, TypeOK, x
<1>7. x \in Time
  BY <1>2 DEF x
<1>8. /\ steps'[e][c] \in StepRow
      /\ steps'[e][c].status = "Running" /\ steps'[e][c].workerId = w
      /\ steps'[e][c].leaseExpiresAt = x
  BY <1>5, <1>6, <1>7 DEF StepRow
<1> QED BY <1>2, <1>4, <1>7, <1>8, NoneAssumption DEF Kept, HoldsTask

\* A claim that is spared keeps its lease, or gets a longer one.
LEMMA SparedIsKept ==
  ASSUME TablesInv, Registered, LeaseOutlastsInterval, NEW w \in Workers,
         NEW p \in Tasks, NEW slack \in 0..KeepAliveInterval,
         Kept(w, p, slack), Spares(w, p)
  PROVE  Kept(w, p, slack)'
<1> DEFINE e == p[1]
           k == p[2]
<1>1. e \in Executions /\ k \in Slots /\ k[1] \in StepNames /\ p = <<e, k>>
  BY TaskParts
<1>2. now' = now /\ [Next]_vars
  BY SparingSteps
<1>3. ASSUME Has(e, k, {"Canceled"}), executions[e] # None, ~IsRunning(e)
      PROVE  Kept(w, p, slack)'
  <2>1. executions'[e] = executions[e] /\ steps'[e] = steps[e]
    BY <1>1, <1>2, <1>3, EndedIsFrozen
  <2> QED BY <1>3, <2>1 DEF Kept, Has, IsRunning
<1>4. ASSUME HoldsTask(w, p, steps), steps[e][k].leaseExpiresAt \in Time,
             steps[e][k].leaseExpiresAt > now + slack
      PROVE  Kept(w, p, slack)'
  <2>1. LeaseLive(e, k)
    <3>1. now \in Int /\ slack \in Int /\ slack >= 0
      BY DEF TablesInv, TypeOK, Time
    <3>2. \A x \in Time : x > now + slack => x > now
      BY <3>1 DEF Time
    <3> QED BY <1>4, <3>2 DEF HoldsTask, LeaseLive, Has
  <2>2. /\ IsRunning(e) /\ k = CurrentSlot(e)
        /\ steps[e][k].workerId = w /\ steps[e][k] \in StepRow
    BY <1>1, <1>4, <2>1, LiveLeaseFacts
       DEF HoldsTask, TablesInv, TablesAgree, TypeOK
  <2>3. ASSUME steps'[e][k] = steps[e][k] PROVE Kept(w, p, slack)'
    BY <1>2, <1>4, <2>3 DEF Kept, HoldsTask
  <2>4. CASE Register \/ Start \/ SweepExpiredLeases \/ UNCHANGED vars
    BY <1>1, <2>1, <2>3, <2>4, LiveRowKept
  <2>5. CASE \E v \in Workflows, id \in Workers :
               PollAndClaimWorkflowSteps(v, id, 1)
    <3>1. Poll
      BY <2>5, OneStepAssumption, BoundsAssumption DEF Poll
    <3> QED BY <1>1, <2>1, <2>3, <3>1, LiveRowKept
  <2>6. ASSUME NEW f \in Executions, CancelWorkflow(f) PROVE Kept(w, p, slack)'
    <3>1. CASE f # e
      BY <1>1, <2>1, <2>3, <2>6, <3>1, LiveRowKept
    <3>2. CASE f = e
      <4>1. executions[e] # None /\ executions[e] \in ExecutionRow
        BY <1>1, <2>2, CurrentSlotType DEF IsRunning, TablesInv
      <4>2. executions'[e] = [executions[e] EXCEPT !.status = "Canceled"]
        BY <1>1, <2>6, <3>2 DEF CancelWorkflow, TablesInv, TypeOK
      <4>3. executions'[e] # None /\ executions'[e].status = "Canceled"
        BY <4>1, <4>2, NoneAssumption DEF ExecutionRow, ExecutionStatus
      <4>4. steps'[e] = CanceledSteps(e)
        BY <1>1, <2>6, <3>2 DEF CancelWorkflow, TablesInv, TypeOK
      <4>5. steps'[e][k] = CanceledRow(steps[e][k])
        BY <1>1, <2>1, <4>4 DEF CanceledSteps, LeaseLive, Active, Has
      <4> QED BY <2>2, <4>3, <4>5, CanceledRowFacts DEF Kept, Has, IsRunning
    <3> QED BY <3>1, <3>2
  <2>7. ASSUME NEW f \in Executions, NEW id \in Workers,
               Report(f, id), f # e \/ id # w
        PROVE  Kept(w, p, slack)'
    BY <1>1, <2>1, <2>2, <2>3, <2>7, LiveRowKept
  <2>8. ASSUME NEW q \in Tasks, NEW id \in Workers,
               PingTask(q, id) \/ (ReportTask(q, id) /\ ~(id = w /\ SameStep(q, p)))
        PROVE  Kept(w, p, slack)'
    <3>1. CASE q[1] # e \/ id # w
      BY <2>7, <2>8, <3>1, CallsAreReports, TaskParts
    <3>2. CASE q[1] = e /\ id = w /\ PingTask(q, id)
      <4>1. Kept(w, p, KeepAliveInterval)'
        BY <2>2, <2>8, <3>2, PingRenews
      <4> DEFINE n == now'
      <4>2. n \in Int /\ slack \in Int /\ KeepAliveInterval \in Int
            /\ slack <= KeepAliveInterval
        BY <1>2, IntervalAssumption DEF TablesInv, TypeOK, Time
      <4> HIDE DEF n
      <4>3. ASSUME NEW x \in Int, x > n + KeepAliveInterval PROVE x > n + slack
        BY <4>2, <4>3
      <4> QED BY <4>1, <4>3 DEF Kept, Time, n
    <3>3. CASE q[1] = e /\ id = w /\ ReportTask(q, id) /\ ~PingTask(q, id)
      <4>1. CurrentSlot(q[1])[1] = q[2][1]
        BY <3>3, CallFindsClaim DEF TablesInv
      <4>2. CurrentSlot(q[1]) = k
        BY <2>2, <3>3 DEF CurrentSlot
      <4> QED BY <2>8, <3>3, <4>1, <4>2 DEF SameStep
    <3> QED BY <2>8, <3>1, <3>2, <3>3
  <2> QED BY <2>4, <2>5, <2>6, <2>7, <2>8 DEF Spares
<1> QED BY <1>3, <1>4 DEF Kept

\* The row of a claim that is kept, and not cancelled, is its execution's
\* current attempt.
LEMMA KeptIsCurrent ==
  ASSUME TablesInv, NEW w \in Workers, NEW p \in Tasks,
         NEW slack \in 0..KeepAliveInterval, Kept(w, p, slack), IsRunning(p[1])
  PROVE  LeaseLive(p[1], p[2]) /\ p[2] = CurrentSlot(p[1])
<1>1. /\ HoldsTask(w, p, steps)
      /\ steps[p[1]][p[2]].leaseExpiresAt \in Time
      /\ steps[p[1]][p[2]].leaseExpiresAt > now + slack
  BY DEF Kept
<1>2. now \in Int /\ slack \in Int /\ slack >= 0
  BY DEF TablesInv, TypeOK, Time
<1>3. \A x \in Time : x > now + slack => x > now
  BY <1>2 DEF Time
<1>4. LeaseLive(p[1], p[2])
  BY <1>1, <1>3 DEF HoldsTask, LeaseLive, Has
<1> QED BY <1>4, TaskParts, LiveLeaseFacts DEF TablesInv, TablesAgree

\* A poll offers nobody the step of a claim that is kept.
LEMMA NotOffered ==
  ASSUME TablesInv, NEW w \in Workers, NEW p \in Tasks,
         NEW slack \in 0..KeepAliveInterval, Kept(w, p, slack),
         NEW v \in Workflows, NEW id \in Workers,
         PollAndClaimWorkflowSteps(v, id, 1),
         NEW q \in Tasks, steps'[q[1]][q[2]] # steps[q[1]][q[2]]
  PROVE  ~SameStep(q, p)
<1> SUFFICES ASSUME q[1] = p[1] PROVE FALSE
  BY DEF SameStep
<1>1. p[1] \in Executions /\ p[2] \in Slots /\ q[2] \in Slots /\ Agrees(p[1])
  BY TaskParts DEF TablesInv, TablesAgree
<1>2. Active(q[1], q[2]) /\ \E t \in ClockReadings : q \in Claimable(v, t)
  BY PollClaimsRow
<1>3. CASE IsRunning(p[1])
  <2>1. LeaseLive(p[1], p[2]) /\ p[2] = CurrentSlot(p[1])
    BY <1>3, KeptIsCurrent
  <2>2. q[2] = CurrentSlot(p[1])
    <3>1. Active(p[1], q[2])
      BY <1>2 DEF Active, Has
    <3> QED BY <1>1, <1>3, <3>1 DEF Agrees, IsRunning
  <2>3. \A t \in ClockReadings : <<p[1], p[2]>> \notin Claimable(v, t)
    BY <1>1, <2>1, LiveLeaseFacts DEF TablesInv
  <2>4. q = <<p[1], p[2]>>
    BY <2>1, <2>2, TaskParts
  <2> QED BY <1>2, <2>3, <2>4
<1>4. CASE ~IsRunning(p[1])
  <2>1. executions[q[1]] # None
    BY <1>2 DEF Claimable
  <2>2. [Next]_vars
    BY SparingSteps DEF Spares
  <2>3. steps'[p[1]] = steps[p[1]]
    BY <1>1, <1>4, <2>1, <2>2, EndedIsFrozen
  <2> QED BY <2>3
<1> QED BY <1>3, <1>4

\* A lease that lasts long enough lasts less long, too.
LEMMA LessSlack ==
  ASSUME NEW w, NEW p, NEW m \in Nat, NEW n \in Nat, n <= m, now \in Int,
         Kept(w, p, m)
  PROVE  Kept(w, p, n)
<1>1. \A x \in Time : x > now + m => x > now + n
  BY DEF Time
<1> QED BY <1>1 DEF Kept

\* Nobody comes to share the step of task p by keeping the task he has, giving
\* up a call about it, or turning to another step.
LEMMA StillAlone ==
  ASSUME NEW t \in Threads, NEW p, ~Shared(t, p),
         \A u \in Threads \ {t} : task'[u] # None =>
           task'[u] = task[u] \/ ~SameStep(task'[u], p),
         \A c \in Connections : stray'[c] # None =>
           \/ stray'[c].call # "report"
           \/ /\ stray[c] # None /\ stray'[c].call = stray[c].call
              /\ stray'[c].id = stray[c].id /\ stray'[c].task = stray[c].task
           \/ \E u \in Threads \ {t} :
                task[u] # None /\ stray'[c].id = IdOf[u] /\ stray'[c].task = task[u]
  PROVE  ~Shared(t, p)'
<1>1. ASSUME NEW u \in Threads, IdOf[u] = IdOf[t], u # t, task'[u] # None
      PROVE  ~SameStep(task'[u], p)
  <2>1. CASE task'[u] = task[u]
    BY <1>1, <2>1 DEF Shared
  <2> QED BY <1>1, <2>1
<1>2. ASSUME NEW c \in Connections, stray'[c] # None, stray'[c].id = IdOf[t],
             stray'[c].call = "report"
      PROVE  ~SameStep(stray'[c].task, p)
  BY <1>2 DEF Shared
<1> QED BY <1>1, <1>2 DEF Shared, SameStep

\* How a call about task q under worker id w looks to the claim of task p by
\* thread t, when nobody shares the step.
LEMMA CallSpares ==
  ASSUME NEW t \in Threads, NEW w \in Workers, NEW p \in Tasks, ~Shared(t, p),
         NEW q \in Tasks,
         \/ PingTask(q, w)
         \/ /\ ReportTask(q, w)
            /\ \/ \E u \in Threads \ {t} : IdOf[u] = w /\ task[u] = q
                                          /\ task[u] # None
               \/ \E c \in Connections :
                    /\ stray[c] # None /\ stray[c].call = "report"
                    /\ stray[c].id = w /\ stray[c].task = q
  PROVE  Spares(IdOf[t], p)
<1>1. CASE PingTask(q, w)
  BY <1>1 DEF Spares
<1>2. CASE ReportTask(q, w) /\ ~PingTask(q, w)
  <2>1. ~(w = IdOf[t] /\ SameStep(q, p))
    BY <1>2 DEF Shared
  <2> QED BY <1>2, <2>1 DEF Spares
<1> QED BY <1>1, <1>2

\* What a step of another thread, a call taken late or the rest of the world
\* does spares the claim of thread t.
LEMMA StepSpares ==
  ASSUME ThreadsInv, NEW t \in Threads, NEW p \in Tasks, ~Shared(t, p),
         \/ Others
         \/ UNCHANGED vars
         \/ \E c \in Connections : TakeStray(c)
         \/ \E u \in Threads \ {t} : WorkerStep(u)
  PROVE  Spares(IdOf[t], p)
<1>0. \A u \in Threads : IdOf[u] \in Workers
  BY IdAssumption
<1>1. CASE Others
  <2>1. ASSUME NEW id \in Workers \ {IdOf[u] : u \in Threads},
               \/ \E v \in Workflows : PollAndClaimWorkflowSteps(v, id, 1)
               \/ \E e \in Executions : Report(e, id)
        PROVE  Spares(IdOf[t], p)
    BY <2>1 DEF Spares
  <2> QED BY <1>1, <2>1 DEF Others, Spares
<1>2. CASE UNCHANGED vars
  BY <1>2 DEF Spares
<1>3. ASSUME NEW c \in Connections, TakeStray(c)
      PROVE  Spares(IdOf[t], p)
  <2>1. stray[c] # None /\ stray[c].task \in Tasks /\ stray[c].id \in Workers
    BY <1>3 DEF TakeStray, ThreadsInv, StrayCall
  <2>2. \/ PingTask(stray[c].task, stray[c].id)
        \/ /\ stray[c].call = "report"
           /\ ReportTask(stray[c].task, stray[c].id)
        \/ UNCHANGED vars
    BY <1>3 DEF TakeStray
  <2> QED BY <1>2, <2>1, <2>2, CallSpares
<1>4. ASSUME NEW u \in Threads \ {t}, WorkerStep(u)
      PROVE  Spares(IdOf[t], p)
  <2>1. CASE PollClaims(u)
    BY <1>0, <2>1 DEF PollClaims, Spares
  <2>2. CASE Ping(u) \/ SendReport(u)
    <3>1. task[u] # None /\ task[u] \in Tasks
      BY <2>2 DEF Ping, SendReport, ThreadsInv
    <3>2. \/ PingTask(task[u], IdOf[u]) \/ ReportTask(task[u], IdOf[u])
          \/ UNCHANGED vars
      BY <2>2 DEF Ping, SendReport
    <3> QED BY <1>0, <1>2, <3>1, <3>2, CallSpares
  <2>3. CASE ~PollClaims(u) /\ ~Ping(u) /\ ~SendReport(u)
    <3>1. UNCHANGED vars
      BY <1>4, <2>3 DEF WorkerStep, StartWorker, Stop, LoopHead,
              PollFindsNothing, Begin, HandlerEnds, GiveUp, Crash
    <3> QED BY <1>2, <3>1
  <2> QED BY <2>1, <2>2, <2>3
<1> QED BY <1>1, <1>2, <1>3, <1>4

\* Whoever takes a step, thread t stays alone with the step of its task.
LEMMA StaysAlone ==
  ASSUME TablesInv, ThreadsInv, NEW t \in Threads, NEW p \in Tasks,
         NEW slack \in 0..KeepAliveInterval, Kept(IdOf[t], p, slack),
         ~Shared(t, p), [WorkerNext]_allVars, ~(PollClaims(t) \/ SendReport(t)),
         task'[t] # None
  PROVE  ~Shared(t, p)'
<1>0. \A c \in Connections : stray[c] # None =>
        /\ FateOfStrays[c] # None
        /\ FateOfStrays[c].call = stray[c].call
        /\ FateOfStrays[c].id = stray[c].id
        /\ FateOfStrays[c].task = stray[c].task
  BY FateTypes DEF ThreadsInv
<1>00. /\ \A c \in Connections : stray[c] = None => FateOfStrays[c] = None
       /\ FateOfStrays \in [Connections -> StrayCall \cup {None}]
  BY FateTypes DEF ThreadsInv
<1>1. CASE UNCHANGED <<task, stray>>
  BY <1>1, StillAlone
<1>2. CASE task' = task /\ stray' = FateOfStrays
  BY <1>0, <1>00, <1>2, StillAlone
<1>3. ASSUME NEW u \in Threads, WorkerStep(u)
      PROVE  ~Shared(t, p)'
  <2>1. CASE PollClaims(u)
    <3>1. PICK q \in Tasks : /\ steps'[q[1]][q[2]] # steps[q[1]][q[2]]
                             /\ task' = [task EXCEPT ![u] = q]
      BY <2>1 DEF PollClaims
    <3>2. ~SameStep(q, p)
      <4>1. PICK v \in Workflows : PollAndClaimWorkflowSteps(v, IdOf[u], 1)
        BY <2>1 DEF PollClaims
      <4> QED BY <3>1, <4>1, NotOffered, IdAssumption
    <3>3. stray' = FateOfStrays
      BY <2>1 DEF PollClaims
    <3>4. \A v \in Threads : task'[v] = task[v] \/ ~SameStep(task'[v], p)
      BY <3>1, <3>2 DEF ThreadsInv
    <3> QED BY <1>0, <1>00, <3>3, <3>4, StillAlone
  <2>2. CASE PollFindsNothing(u) \/ Crash(u)
    <3>1. task' = [task EXCEPT ![u] = None] /\ UNCHANGED stray
      BY <2>2 DEF PollFindsNothing, Crash, Forget
    <3>2. \A v \in Threads : task'[v] # None => task'[v] = task[v]
      BY <3>1 DEF ThreadsInv
    <3> QED BY <3>1, <3>2, StillAlone
  <2>3. CASE SendReport(u)
    <3>1. task' = [task EXCEPT ![u] = None] /\ stray' = FateOfStrays
      BY <2>3 DEF SendReport, Forget
    <3>2. \A v \in Threads : task'[v] # None => task'[v] = task[v]
      BY <3>1 DEF ThreadsInv
    <3> QED BY <1>0, <1>00, <3>1, <3>2, StillAlone
  <2>4. ASSUME NEW c \in Connections, GiveUp(u, c)
        PROVE  ~Shared(t, p)'
    <3>1. \A v \in Threads : task'[v] # None => task'[v] = task[v]
      BY <2>4 DEF GiveUp, Forget, ThreadsInv
    <3>2. \A d \in Connections \ {c} : stray'[d] = stray[d]
      BY <2>4 DEF GiveUp, ThreadsInv
    <3>3. \/ stray'[c].call # "report"
          \/ /\ u # t /\ task[u] # None
             /\ stray'[c].id = IdOf[u] /\ stray'[c].task = task[u]
      <4>1. CASE worker[u] = "handling"
        <5>1. stray'[c].call = "ping"
          BY <2>4, <4>1 DEF GiveUp, ThreadsInv
        <5> QED BY <5>1
      <4>2. CASE worker[u] # "handling"
        <5>1. /\ worker[u] = "reporting"
              /\ stray'[c].id = IdOf[u] /\ stray'[c].task = task[u]
              /\ task'[u] = None
          BY <2>4, <4>2 DEF GiveUp, Forget, ThreadsInv
        <5>2. task[u] # None
          BY <5>1 DEF ThreadsInv
        <5> QED BY <5>1, <5>2
      <4> QED BY <4>1, <4>2
    <3> QED BY <3>1, <3>2, <3>3, StillAlone
  <2>5. CASE Ping(u)
    BY <1>2, <2>5 DEF Ping, RecordFates
  <2>6. CASE StartWorker(u) \/ Stop(u) \/ LoopHead(u) \/ Begin(u) \/ HandlerEnds(u)
    BY <1>1, <2>6 DEF StartWorker, Stop, LoopHead, Begin, HandlerEnds
  <2> QED BY <1>3, <2>1, <2>2, <2>3, <2>4, <2>5, <2>6 DEF WorkerStep
<1>4. ASSUME NEW c \in Connections, TakeStray(c)
      PROVE  ~Shared(t, p)'
  <2>1. stray' = [FateOfStrays EXCEPT ![c] = None] /\ task' = task
    BY <1>4 DEF TakeStray
  <2> QED BY <1>0, <1>00, <2>1, StillAlone
<1>5. CASE Others
  BY <1>2, <1>5 DEF Others, RecordFates
<1>6. CASE TimePasses \/ UNCHANGED allVars
  BY <1>1, <1>6 DEF TimePasses, allVars, workerVars
<1> QED BY <1>3, <1>4, <1>5, <1>6 DEF WorkerNext

\* A poll that hands thread t a step claims it for longer than the interval
\* between pings.
LEMMA PollKeeps ==
  ASSUME TablesInv, Registered, LeaseOutlastsInterval, ThreadsInv,
         NEW t \in Threads, PollClaims(t), ~atRisk'[t]
  PROVE  /\ Kept(IdOf[t], task[t], KeepAliveInterval)'
         /\ ~Shared(t, task[t])'
<1>1. PICK p \in Tasks : /\ steps'[p[1]][p[2]] # steps[p[1]][p[2]]
                         /\ task' = [task EXCEPT ![t] = p]
                         /\ atRisk' = [atRisk EXCEPT ![t] = Shared(t, p)]
  BY DEF PollClaims
<1>2. PICK w \in Workflows : PollAndClaimWorkflowSteps(w, IdOf[t], 1)
  BY DEF PollClaims
<1>3. task'[t] = p /\ ~Shared(t, p)
  BY <1>1 DEF ThreadsInv
<1>4. PICK c \in ClockReadings :
        /\ p \in Claimable(w, c)
        /\ HasLease(p[1], p[2][1])
        /\ steps'[p[1]][p[2]] =
             Claimed(steps[p[1]][p[2]], IdOf[t],
                     c + DefinitionOf(p[1]).steps[p[2][1]].lease)
        /\ c + DefinitionOf(p[1]).steps[p[2][1]].lease \in Time
  BY <1>1, <1>2, PollClaimsRow
<1> DEFINE x == c + DefinitionOf(p[1]).steps[p[2][1]].lease
<1>5. /\ p[1] \in Executions /\ p[2] \in Slots /\ p[2][1] \in StepNames
      /\ executions[p[1]] # None
      /\ IdOf[t] \in Workers
  BY <1>4, TaskParts, IdAssumption DEF Claimable
<1>6. Active(p[1], p[2])
  BY <1>1, <1>2, PollClaimsRow
<1>7. x > now + KeepAliveInterval /\ x \in Time /\ now' = now
  <2>1. definitions[executions[p[1]].workflow] # None
    BY <1>2, <1>4 DEF PollAndClaimWorkflowSteps, Claimable
  <2>2. x > now + KeepAliveInterval
    BY <1>4, <1>5, <2>1, LeaseIsLong DEF TablesInv, DefinitionOf
  <2> QED BY <1>2, <1>4, <2>2 DEF PollAndClaimWorkflowSteps
<1> HIDE DEF x
<1>8. steps'[p[1]][p[2]] = Claimed(steps[p[1]][p[2]], IdOf[t], x)
  BY <1>4 DEF x
<1>9. HoldsTask(IdOf[t], p, steps') /\ steps'[p[1]][p[2]].leaseExpiresAt = x
  BY <1>5, <1>6, <1>7, <1>8, ClaimHolds DEF TablesInv
<1>10. Kept(IdOf[t], p, KeepAliveInterval)'
  BY <1>7, <1>9 DEF Kept
<1>11. ~Shared(t, p)'
  <2>1. /\ \A d \in Connections : stray[d] = None => FateOfStrays[d] = None
        /\ \A d \in Connections : stray[d] # None =>
             /\ FateOfStrays[d].call = stray[d].call
             /\ FateOfStrays[d].id = stray[d].id
             /\ FateOfStrays[d].task = stray[d].task
        /\ stray' = FateOfStrays
    BY FateTypes DEF ThreadsInv, PollClaims
  <2>2. \A u \in Threads \ {t} : task'[u] = task[u]
    BY <1>1 DEF ThreadsInv
  <2> QED BY <1>3, <2>1, <2>2, StillAlone
<1> QED BY <1>3, <1>10, <1>11

LEMMA ClaimsStep ==
  ASSUME TablesInv, Registered, LeaseOutlastsInterval, ThreadsInv, ThreadsInv',
         ClaimsKept, [WorkerNext]_allVars
  PROVE  ClaimsKept'
<1> SUFFICES ASSUME NEW t \in Threads, task'[t] # None, ~atRisk'[t]
             PROVE  /\ Kept(IdOf[t], task[t], Slack(t))'
                    /\ ~Shared(t, task[t])'
  BY DEF ClaimsKept
<1>1. CASE PollClaims(t)
  <2>1. worker'[t] = "handed"
    BY <1>1 DEF PollClaims, ThreadsInv
  <2>2. Slack(t)' = KeepAliveInterval
    BY <2>1 DEF Slack
  <2> QED BY <1>1, <2>2, PollKeeps
<1>2. CASE ~PollClaims(t)
  <2>1. ~SendReport(t)
    BY DEF SendReport, Forget, ThreadsInv
  <2>2. task[t] # None /\ task'[t] = task[t] /\ ~atRisk[t]
    <3>1. CASE Others \/ TimePasses \/ UNCHANGED allVars
      BY <3>1 DEF Others, TimePasses, allVars, workerVars, ThreadsInv
    <3>2. ASSUME NEW u \in Threads, WorkerStep(u)
          PROVE  task[t] # None /\ task'[t] = task[t] /\ ~atRisk[t]
      <4>1. CASE PollClaims(u) \/ SendReport(u)
        <5>1. u # t
          BY <1>2, <2>1, <4>1
        <5> QED BY <4>1, <5>1 DEF PollClaims, SendReport, Forget, ThreadsInv
      <4>2. CASE PollFindsNothing(u) \/ Crash(u)
                   \/ \E c \in Connections : GiveUp(u, c)
        BY <4>2 DEF PollFindsNothing, Crash, GiveUp, Forget, ThreadsInv
      <4>3. CASE StartWorker(u) \/ Stop(u) \/ LoopHead(u) \/ Begin(u)
                   \/ Ping(u) \/ HandlerEnds(u)
        BY <4>3 DEF StartWorker, Stop, LoopHead, Begin, Ping, HandlerEnds,
                    ThreadsInv
      <4> QED BY <3>2, <4>1, <4>2, <4>3 DEF WorkerStep
    <3>3. CASE \E c \in Connections : TakeStray(c)
      BY <3>3 DEF TakeStray
    <3> QED BY <3>1, <3>2, <3>3 DEF WorkerNext
  <2>3. PICK p \in Tasks : p = task[t]
    BY <2>2 DEF ThreadsInv
  <2>4. PICK n \in 0..KeepAliveInterval : n = Slack(t)
    BY <2>2, IntervalAssumption, NoneAssumption DEF ThreadsInv, Slack
  <2>5. PICK m \in 0..KeepAliveInterval : m = Slack(t)'
    BY IntervalAssumption, NoneAssumption DEF ThreadsInv, Slack
  <2>6. Kept(IdOf[t], p, n) /\ ~Shared(t, p)
    BY <2>2, <2>3, <2>4 DEF ClaimsKept
  <2>7. ~Shared(t, p)'
    BY <1>2, <2>1, <2>6, StaysAlone
  <2>8. IdOf[t] \in Workers /\ now \in Int /\ m \in Nat /\ n \in Nat
    BY IdAssumption, IntervalAssumption DEF TablesInv, TypeOK, Time
  <2>9. Kept(IdOf[t], p, m)'
    <3>1. CASE TimePasses
      <4>1. worker[t] = "handling" /\ pingIn[t] # 0
        BY <2>2, <3>1 DEF TimePasses, OwesCall, ThreadsInv
      <4>2. n = pingIn[t] /\ m = pingIn[t] - 1 /\ now' = now + 1
        BY <2>4, <2>5, <3>1, <4>1, NoneAssumption
           DEF TimePasses, Tick, Slack, ThreadsInv
      <4>3. \A x \in Time : x > now + n => x > now' + m
        BY <2>8, <4>2 DEF Time
      <4> QED BY <2>6, <3>1, <4>3
              DEF TimePasses, Tick, Kept, Has, HoldsTask, IsRunning
    <3>2. CASE Ping(t)
      <4>1. PingTask(p, IdOf[t])
        BY <2>3, <3>2 DEF Ping, ThreadsInv
      <4>2. IsRunning(p[1])
        BY <4>1 DEF PingTask, KeepAliveStep, MayReport
      <4>3. p[2] = CurrentSlot(p[1])
        BY <2>6, <2>8, <4>2, KeptIsCurrent
      <4>4. Kept(IdOf[t], p, KeepAliveInterval)'
        BY <2>8, <4>1, <4>3, PingRenews
      <4>5. m = KeepAliveInterval
        BY <2>5, <3>2 DEF Ping, Slack, ThreadsInv
      <4> QED BY <4>4, <4>5
    <3>3. CASE ~TimePasses /\ ~Ping(t)
      <4>1. Spares(IdOf[t], p)
        <5>1. CASE Others \/ UNCHANGED allVars
          BY <2>6, <5>1, StepSpares DEF allVars
        <5>2. ASSUME NEW u \in Threads \ {t}, WorkerStep(u)
              PROVE  Spares(IdOf[t], p)
          BY <2>6, <5>2, StepSpares
        <5>3. CASE WorkerStep(t)
          <6>1. UNCHANGED vars
            BY <1>2, <2>1, <3>3, <5>3
               DEF WorkerStep, StartWorker, Stop, LoopHead, PollFindsNothing,
                   Begin, HandlerEnds, GiveUp, Crash
          <6> QED BY <2>6, <6>1, StepSpares
        <5>4. CASE \E c \in Connections : TakeStray(c)
          BY <2>6, <5>4, StepSpares
        <5> QED BY <3>3, <5>1, <5>2, <5>3, <5>4 DEF WorkerNext
      <4>2. m <= n
        <5>1. CASE UNCHANGED <<worker, pingIn>>
          BY <2>4, <2>5, <2>8, <5>1 DEF Slack
        <5>2. ASSUME NEW u \in Threads, WorkerStep(u)
              PROVE  m <= n
          <6>1. CASE worker'[t] = worker[t] /\ pingIn'[t] = pingIn[t]
            BY <2>4, <2>5, <2>8, <6>1 DEF Slack
          <6>2. CASE Begin(t)
            BY <2>4, <2>5, <2>8, <6>2 DEF Begin, Slack
          <6>3. CASE HandlerEnds(t)
            BY <2>4, <2>5, <2>8, <6>3 DEF HandlerEnds, Slack, ThreadsInv
          <6>4. u = t => \/ worker'[t] = worker[t] /\ pingIn'[t] = pingIn[t]
                         \/ Begin(t) \/ HandlerEnds(t)
            <7>1. u = t => ~(\/ StartWorker(u) \/ LoopHead(u) \/ Crash(u)
                             \/ PollFindsNothing(u)
                             \/ \E c \in Connections : GiveUp(u, c))
              BY <2>2 DEF StartWorker, LoopHead, Crash, PollFindsNothing,
                      GiveUp, Forget, ThreadsInv
            <7> QED BY <1>2, <2>1, <3>3, <5>2, <7>1 DEF WorkerStep, Stop
          <6>5. u # t => worker'[t] = worker[t] /\ pingIn'[t] = pingIn[t]
            BY <5>2 DEF WorkerStep, StartWorker, Stop, LoopHead, PollClaims,
                    PollFindsNothing, Begin, Ping, HandlerEnds, SendReport,
                    GiveUp, Crash, Forget, ThreadsInv
          <6> QED BY <6>1, <6>2, <6>3, <6>4, <6>5
        <5>3. CASE \/ Others \/ UNCHANGED allVars
                   \/ \E c \in Connections : TakeStray(c)
          BY <5>1, <5>3 DEF Others, TakeStray, allVars, workerVars
        <5> QED BY <3>3, <5>2, <5>3 DEF WorkerNext
      <4>3. Kept(IdOf[t], p, m)
        BY <2>6, <2>8, <4>2, LessSlack
      <4> QED BY <2>8, <4>1, <4>3, SparedIsKept
    <3> QED BY <3>1, <3>2, <3>3
  <2> QED BY <2>2, <2>3, <2>5, <2>7, <2>9
<1> QED BY <1>1, <1>2

\* A worker whose calls are on time, and nobody's of its id interfere, keeps its
\* claim until it reports, however long its handler takes and however often
\* others poll, sweep and report: its lease never runs out, because each ping
\* renews it before the next one is due.
THEOREM OnTimeThreadsKeepTheirClaims ==
  ASSUME LeaseOutlastsInterval PROVE WorkerSpec => []OnTimeKeepsClaim
<1>1. WorkerInit => ClaimsKept
  BY DEF WorkerInit, ClaimsKept
<1>2. TablesInv /\ Registered /\ ThreadsInv /\ ThreadsInv' /\ ClaimsKept
        /\ [WorkerNext]_allVars => ClaimsKept'
  BY ClaimsStep
<1>3. TablesInv /\ ThreadsInv /\ ClaimsKept => OnTimeKeepsClaim
  <2> SUFFICES ASSUME TablesInv, ThreadsInv, ClaimsKept, NEW t \in Threads,
                      task[t] # None, ~atRisk[t],
                      ~Has(task[t][1], task[t][2], {"Canceled"})
               PROVE  /\ HoldsTask(IdOf[t], task[t], steps)
                      /\ LeaseLive(task[t][1], task[t][2])
    BY DEF OnTimeKeepsClaim
  <2>1. /\ Slack(t) \in 0..KeepAliveInterval
        /\ IdOf[t] \in Workers /\ task[t] \in Tasks
    BY IntervalAssumption, IdAssumption, NoneAssumption DEF ThreadsInv, Slack
  <2>2. /\ HoldsTask(IdOf[t], task[t], steps)
        /\ steps[task[t][1]][task[t][2]].leaseExpiresAt \in Time
        /\ steps[task[t][1]][task[t][2]].leaseExpiresAt > now + Slack(t)
    BY DEF ClaimsKept, Kept
  <2>3. now \in Int /\ Slack(t) \in Int /\ Slack(t) >= 0
    BY <2>1 DEF TablesInv, TypeOK, Time
  <2>4. \A x \in Time : x > now + Slack(t) => x > now
    BY <2>3 DEF Time
  <2> QED BY <2>2, <2>4 DEF HoldsTask, LeaseLive, Has
<1>4. WorkerSpec => []TablesInv /\ []Registered
  BY WorkersImplementOrchestrator, TablesInvariant, RegisteredInvariant, PTL
<1> QED BY <1>1, <1>2, <1>3, <1>4, ThreadsInvariant, PTL DEF WorkerSpec

=============================================================================
