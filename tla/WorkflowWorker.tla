--------------------------- MODULE WorkflowWorker ---------------------------
(***************************************************************************)
(* The threads of WorkflowWorkers against the orchestrator: each polls for *)
(* one step, runs its handler with a KeepAliveThread beside it, and        *)
(* reports.  Threads may share a worker id, which nothing prevents.        *)
(*                                                                         *)
(* A call is one action, with every delay before and after it: it takes    *)
(* effect before its caller sees it end.  Or its caller gives up on it,    *)
(* and it is taken later, or never.  Processes may crash.                  *)
(***************************************************************************)
EXTENDS Orchestrator

CONSTANTS
  Threads,             \* the threads of WorkflowWorkers
  IdOf,                \* the workerId each of them was given
  KeepAliveInterval,   \* ticks between two pings
  Connections          \* what bounds the calls given up on and not yet taken

ASSUME IntervalAssumption == KeepAliveInterval \in Nat \ {0}

ASSUME IdAssumption == IdOf \in [Threads -> Workers]

\* A worker asks for one step at a time, and MaxBatch bounds what is asked for.
ASSUME OneStepAssumption == MaxBatch >= 1

VARIABLES
  stopping,
  worker,     \* where each thread is in run and executeStep
  task,       \* the execution and slot it was handed, or None
  pingIn,     \* ticks until its next ping, or None without a KeepAliveThread
  stray,      \* by connection, a call given up on that may still be taken
  atRisk,     \* history: time passed while the thread owed a call, or another
              \* call of its id was about the step when it was claimed
  fate        \* history: what became of the claim it was handed

workerVars == <<stopping, worker, task, pingIn, stray, atRisk, fate>>
allVars == <<vars, workerVars>>

WorkerStates == {"off", "head", "polling", "handed", "handling", "reporting"}

Tasks == Executions \X Slots

\* A claim is lost once its row is claimed, failed or ended by others, and
\* claimed again once a later claim of its step has the same worker id.
Fates == {"held", "lost", "again"}

\* A call whose caller has given up on it, and the history of the claim it is
\* about.
StrayCall ==
  [call : {"ping", "report"}, id : Workers, task : Tasks, fate : Fates]

ASSUME NoTaskAssumption == None \notin Tasks \cup StrayCall

WorkerTypeOK ==
  /\ TypeOK
  /\ stopping \in [Threads -> BOOLEAN]
  /\ worker \in [Threads -> WorkerStates]
  /\ task \in [Threads -> Tasks \cup {None}]
  /\ pingIn \in [Threads -> (0..KeepAliveInterval) \cup {None}]
  /\ stray \in [Connections -> StrayCall \cup {None}]
  /\ atRisk \in [Threads -> BOOLEAN]
  /\ fate \in [Threads -> Fates]

WorkerInit ==
  /\ Init
  /\ stopping = [t \in Threads |-> FALSE]
  /\ worker = [t \in Threads |-> "off"]
  /\ task = [t \in Threads |-> None]
  /\ pingIn = [t \in Threads |-> None]
  /\ stray = [c \in Connections |-> None]
  /\ atRisk = [t \in Threads |-> FALSE]
  /\ fate = [t \in Threads |-> "held"]

-----------------------------------------------------------------------------
(* History.                                                                *)

\* The row of task p is claimed under worker id w, in the rows given.
HoldsTask(w, p, rows) ==
  LET row == rows[p[1]][p[2]]
  IN  row # None /\ row.status = "Running" /\ row.workerId = w

\* The step taken claims the step of task p, at any attempt, for w: it writes a
\* row that w holds then and did not hold with a live lease before.
ClaimedAgain(w, p) ==
  \E k \in Slots :
    /\ k[1] = p[2][1]
    /\ steps'[p[1]][k] # steps[p[1]][k]
    /\ HoldsTask(w, <<p[1], k>>, steps')
    /\ ~(HoldsTask(w, <<p[1], k>>, steps) /\ LeaseLive(p[1], k))

FateAfter(w, p, f) ==
  IF ClaimedAgain(w, p) THEN "again"
  ELSE IF f = "held" /\ ~HoldsTask(w, p, steps') THEN "lost" ELSE f

\* What the step of the orchestrator being taken does to the claims of the
\* threads' tasks.
FateOfTasks ==
  [t \in Threads |-> IF task[t] = None THEN fate[t]
                     ELSE FateAfter(IdOf[t], task[t], fate[t])]

\* ... and to those the stray calls are about.
FateOfStrays ==
  [c \in Connections |->
     IF stray[c] = None THEN None
     ELSE [stray[c] EXCEPT !.fate = FateAfter(stray[c].id, stray[c].task, @)]]

RecordFates == fate' = FateOfTasks /\ stray' = FateOfStrays

SameStep(p, q) == p[1] = q[1] /\ p[2][1] = q[2][1]

\* Another thread of t's id, or a report some thread of it gave up on, is
\* still about the step of task p.
Shared(t, p) ==
  \/ \E u \in Threads \ {t} :
       IdOf[u] = IdOf[t] /\ task[u] # None /\ SameStep(task[u], p)
  \/ \E c \in Connections :
       /\ stray[c] # None
       /\ stray[c].call = "report"
       /\ stray[c].id = IdOf[t]
       /\ SameStep(stray[c].task, p)

\* t has a call to make or an answer to receive.
OwesCall(t) ==
  worker[t] \in {"handed", "reporting"} \/ pingIn[t] = 0

-----------------------------------------------------------------------------
(* The calls a thread makes about its task, under its worker id.           *)

PingTask(p, w) == KeepAliveStep(p[1], p[2][1], w)

\* completeWorkflowStep or failWorkflowStep.
ReportTask(p, w) ==
  \/ CompleteWorkflow(p[1], p[2][1], w)
  \/ \E next \in StepNames, input \in Inputs :
       CompleteStep(p[1], p[2][1], w, next, input, None)
  \/ FailStep(p[1], p[2][1], w)

-----------------------------------------------------------------------------
(* Thread t.                                                               *)

StartWorker(t) ==
  /\ worker[t] = "off"
  /\ worker' = [worker EXCEPT ![t] = "head"]
  /\ stopping' = [stopping EXCEPT ![t] = FALSE]
  /\ UNCHANGED <<vars, task, pingIn, stray, atRisk, fate>>

Stop(t) ==
  /\ worker[t] # "off"
  /\ stopping' = [stopping EXCEPT ![t] = TRUE]
  /\ UNCHANGED <<vars, worker, task, pingIn, stray, atRisk, fate>>

\* After a poll without work, pollInterval has elapsed or stop has notified.
LoopHead(t) ==
  /\ worker[t] = "head"
  /\ worker' = [worker EXCEPT ![t] = IF stopping[t] THEN "off" ELSE "polling"]
  /\ UNCHANGED <<vars, stopping, task, pingIn, stray, atRisk, fate>>

\* The poll claims a step, and its response is on the way.
PollClaims(t) ==
  /\ worker[t] = "polling"
  /\ \E w \in Workflows : PollAndClaimWorkflowSteps(w, IdOf[t], 1)
  /\ \E p \in Tasks :
       /\ steps'[p[1]][p[2]] # steps[p[1]][p[2]]
       /\ task' = [task EXCEPT ![t] = p]
       /\ atRisk' = [atRisk EXCEPT ![t] = Shared(t, p)]
  /\ worker' = [worker EXCEPT ![t] = "handed"]
  /\ fate' = [FateOfTasks EXCEPT ![t] = "held"]
  /\ stray' = FateOfStrays
  /\ UNCHANGED <<stopping, pingIn>>

Forget(t) ==
  /\ task' = [task EXCEPT ![t] = None]
  /\ pingIn' = [pingIn EXCEPT ![t] = None]
  /\ atRisk' = [atRisk EXCEPT ![t] = FALSE]

\* The poll finds nothing or throws; or its response is lost.
PollFindsNothing(t) ==
  /\ worker[t] \in {"polling", "handed"}
  /\ worker' = [worker EXCEPT ![t] = "head"]
  /\ fate' = [fate EXCEPT ![t] = "held"]
  /\ Forget(t)
  /\ UNCHANGED <<vars, stopping, stray>>

\* With a handler, the KeepAliveThread is constructed and the handler runs;
\* without one, the step is failed at once.
Begin(t) ==
  /\ worker[t] = "handed"
  /\ \/ /\ worker' = [worker EXCEPT ![t] = "handling"]
        /\ pingIn' = [pingIn EXCEPT ![t] = KeepAliveInterval]
     \/ /\ worker' = [worker EXCEPT ![t] = "reporting"]
        /\ UNCHANGED pingIn
  /\ UNCHANGED <<vars, stopping, task, stray, atRisk, fate>>

\* Mutant: the thread pings once and ends.
Ping_Once(t) ==
  /\ worker[t] = "handling"
  /\ pingIn[t] = 0
  /\ pingIn' = [pingIn EXCEPT ![t] = None]
  /\ \/ PingTask(task[t], IdOf[t]) /\ UNCHANGED atRisk
     \/ UNCHANGED vars /\ atRisk' = [atRisk EXCEPT ![t] = TRUE]
  /\ RecordFates
  /\ UNCHANGED <<stopping, worker, task>>

\* A ping renews the lease, or is refused or lost, which the thread ignores.
\* A lost ping leaves the lease to the next one.
Ping(t) ==
  /\ worker[t] = "handling"
  /\ pingIn[t] = 0
  /\ pingIn' = [pingIn EXCEPT ![t] = KeepAliveInterval]
  /\ \/ PingTask(task[t], IdOf[t]) /\ UNCHANGED atRisk
     \/ UNCHANGED vars /\ atRisk' = [atRisk EXCEPT ![t] = TRUE]
  /\ RecordFates
  /\ UNCHANGED <<stopping, worker, task>>

\* The handler returns or throws, and the KeepAliveThread is joined.
HandlerEnds(t) ==
  /\ worker[t] = "handling"
  /\ worker' = [worker EXCEPT ![t] = "reporting"]
  /\ pingIn' = [pingIn EXCEPT ![t] = None]
  /\ UNCHANGED <<vars, stopping, task, stray, atRisk, fate>>

\* The report is taken, refused or lost; the thread goes on in any case.
SendReport(t) ==
  /\ worker[t] = "reporting"
  /\ ReportTask(task[t], IdOf[t]) \/ UNCHANGED vars
  /\ worker' = [worker EXCEPT ![t] = "head"]
  /\ fate' = [FateOfTasks EXCEPT ![t] = "held"]
  /\ stray' = FateOfStrays
  /\ Forget(t)
  /\ UNCHANGED stopping

\* The ping or report of t, over connection c, throws before it is taken: the
\* wait for its response ran out, or the connection broke.  (A poll given up on
\* claims, if it does, for nobody: PollFindsNothing.)
GiveUp(t, c) ==
  /\ stray[c] = None
  /\ \/ /\ worker[t] = "handling"
        /\ pingIn[t] = 0
        /\ stray' = [stray EXCEPT ![c] =
             [call |-> "ping", id |-> IdOf[t], task |-> task[t],
              fate |-> fate[t]]]
        /\ pingIn' = [pingIn EXCEPT ![t] = KeepAliveInterval]
        /\ atRisk' = [atRisk EXCEPT ![t] = TRUE]
        /\ UNCHANGED <<worker, task, fate>>
     \/ /\ worker[t] = "reporting"
        /\ stray' = [stray EXCEPT ![c] =
             [call |-> "report", id |-> IdOf[t], task |-> task[t],
              fate |-> fate[t]]]
        /\ worker' = [worker EXCEPT ![t] = "head"]
        /\ fate' = [fate EXCEPT ![t] = "held"]
        /\ Forget(t)
  /\ UNCHANGED <<vars, stopping>>

\* A call given up on is taken after all, or refused, or never arrives.
TakeStray(c) ==
  /\ stray[c] # None
  /\ \/ stray[c].call = "ping" /\ PingTask(stray[c].task, stray[c].id)
     \/ stray[c].call = "report" /\ ReportTask(stray[c].task, stray[c].id)
     \/ UNCHANGED vars
  /\ stray' = [FateOfStrays EXCEPT ![c] = None]
  /\ fate' = FateOfTasks
  /\ UNCHANGED <<stopping, worker, task, pingIn, atRisk>>

\* The process of t dies, and forgets what it was doing.
Crash(t) ==
  /\ worker[t] # "off"
  /\ worker' = [worker EXCEPT ![t] = "off"]
  /\ stopping' = [stopping EXCEPT ![t] = FALSE]
  /\ fate' = [fate EXCEPT ![t] = "held"]
  /\ Forget(t)
  /\ UNCHANGED <<vars, stray>>

-----------------------------------------------------------------------------
(* Everything else that touches the tables, and the clock.                 *)

\* Users, the sweep, and workers whose threads are not looked at.
Others ==
  /\ \/ Register \/ Start \/ SweepExpiredLeases
     \/ \E e \in Executions : CancelWorkflow(e)
     \/ \E id \in Workers \ {IdOf[t] : t \in Threads} :
          \/ \E w \in Workflows : PollAndClaimWorkflowSteps(w, id, 1)
          \/ \E e \in Executions : Report(e, id)
  /\ RecordFates
  /\ UNCHANGED <<stopping, worker, task, pingIn, atRisk>>

TimePasses ==
  /\ Tick
  /\ pingIn' = [t \in Threads |->
       IF pingIn[t] \in {None, 0} THEN pingIn[t] ELSE pingIn[t] - 1]
  /\ atRisk' = [t \in Threads |-> atRisk[t] \/ OwesCall(t)]
  /\ UNCHANGED <<stopping, worker, task, stray, fate>>

WorkerStep(t) ==
  \/ StartWorker(t) \/ Stop(t) \/ LoopHead(t) \/ PollClaims(t)
  \/ PollFindsNothing(t) \/ Begin(t) \/ Ping(t)
  \/ HandlerEnds(t) \/ SendReport(t) \/ Crash(t)
  \/ \E c \in Connections : GiveUp(t, c)

WorkerNext ==
  \/ Others
  \/ TimePasses
  \/ \E t \in Threads : WorkerStep(t)
  \/ \E c \in Connections : TakeStray(c)

WorkerSpec == WorkerInit /\ [][WorkerNext]_allVars

-----------------------------------------------------------------------------
(* Properties.                                                             *)

\* A thread whose pings and reports are on time, and come more often than its
\* lease runs out, keeps a claim that its report can still use until it has
\* reported, however long the handler takes: only a cancellation ends it.  A
\* thread of the same id, or a call one gave up on, that was already about the
\* step puts the claim at risk: the orchestrator cannot tell the two apart.
OnTimeKeepsClaim ==
  \A t \in Threads : task[t] # None /\ ~atRisk[t] =>
    \/ HoldsTask(IdOf[t], task[t], steps) /\ LeaseLive(task[t][1], task[t][2])
    \/ Has(task[t][1], task[t][2], {"Canceled"})

\* A call about a lost claim changes nothing, however late it is taken: it is
\* not mistaken for one about another attempt, another visit of the step or
\* another worker's claim.  Only a later claim of the same id and step, which
\* may be another thread's, lets it in.
LostTaskUntouched ==
  [][/\ \A t \in Threads :
          fate[t] = "lost" /\ (Ping(t) \/ SendReport(t)) => UNCHANGED vars
     /\ \A c \in Connections :
          stray[c] # None /\ stray[c].fate = "lost" /\ TakeStray(c)
            => UNCHANGED vars]_allVars

=============================================================================
