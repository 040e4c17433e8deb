----------------------------- MODULE WorkerPool -----------------------------
(***************************************************************************)
(* WorkflowWorkerPool: poller threads claim steps and queue them, executor *)
(* threads run them, each with a KeepAliveThread beside it, and the owner  *)
(* starts and stops the pool.                                              *)
(*                                                                         *)
(* A section the code runs under stateMutex is one action.  clientMutex is *)
(* held across a call to the server, so it is a variable.  The server is   *)
(* abstracted to the steps it hands out, numbered in the order of claims.  *)
(***************************************************************************)
EXTENDS Integers, Sequences, FiniteSets, FiniteSetsExt

CONSTANTS
  Pollers,
  Executors,          \* threadCount of them
  DefinitionsOf,      \* the definitions each poller watches (its stride)
  MaxResultsPerPoll,
  MaxSteps,           \* bound on the steps the server hands out
  MaxStarts,          \* bound on calls of start
  None

ThreadCount == Cardinality(Executors)
Threads == Pollers \cup Executors
StepIds == 1..MaxSteps
KeepAlive(x) == <<"keepAlive", x>>

ASSUME PoolAssumption ==
  /\ IsFiniteSet(Executors) /\ Executors # {}
  /\ IsFiniteSet(Pollers) /\ Pollers \cap Executors = {}
  /\ MaxResultsPerPoll \in Nat \ {0}
  /\ MaxSteps \in Nat /\ MaxStarts \in Nat
  /\ None \notin Threads \cup StepIds

\* An executor's KeepAliveThread is a thread of its own.
ASSUME KeepAliveAssumption ==
  \A x \in Executors : KeepAlive(x) \notin Threads \cup {None}

VARIABLES
  owner,          \* what the owner of the pool is doing
  starts,         \* how often start was called
  stopping,
  idleExecutors,
  workQueue,
  poller,         \* where each poller thread is in runPoller
  todo,           \* the definitions left in each poller's cycle
  foundWork,
  toRequest,      \* slots each poller has reserved
  response,       \* steps each poller got and has not queued yet
  executor,       \* where each executor thread is in runExecutor
  job,            \* the step each executor runs
  keepAlive,      \* where each executor's KeepAliveThread is
  clientMutex,    \* the thread inside a call of the client, or None
  handedOut,      \* how many steps the server has handed out
  reported,       \* the steps an executor has reported on
  carried         \* history: steps the last run left in the queue of this one

mainVars == <<owner, starts, carried>>
pollerVars == <<poller, todo, foundWork, toRequest, response>>
executorVars == <<executor, job, keepAlive, reported>>
vars == <<mainVars, stopping, idleExecutors, workQueue, pollerVars,
          executorVars, clientMutex, handedOut>>

PollerStates == {"off", "head", "cycle", "reserve", "poll", "calling", "push",
                 "giveBack", "wait", "woken"}
ExecutorStates == {"off", "ready", "asleep", "handling", "joining", "report",
                   "calling", "release"}

TypeOK ==
  /\ owner \in {"stopped", "running", "notify", "joinPollers", "joinExecutors"}
  /\ starts \in 0..MaxStarts
  /\ carried \in 0..MaxSteps
  /\ stopping \in BOOLEAN
  /\ idleExecutors \in 0..(ThreadCount + carried)
  /\ workQueue \in Seq(StepIds)
  /\ poller \in [Pollers -> PollerStates]
  /\ todo \in [Pollers -> SUBSET UNION {DefinitionsOf[p] : p \in Pollers}]
  /\ \A p \in Pollers : todo[p] \subseteq DefinitionsOf[p]
  /\ foundWork \in [Pollers -> BOOLEAN]
  /\ toRequest \in [Pollers -> 0..(ThreadCount + carried)]
  /\ response \in [Pollers -> Seq(StepIds)]
  /\ executor \in [Executors -> ExecutorStates]
  /\ job \in [Executors -> StepIds \cup {None}]
  /\ keepAlive \in [Executors -> {"none", "waiting", "pinging", "calling"}]
  /\ clientMutex \in Threads \cup {KeepAlive(x) : x \in Executors} \cup {None}
  /\ handedOut \in 0..MaxSteps
  /\ reported \subseteq StepIds

Init ==
  /\ owner = "stopped"
  /\ starts = 0
  /\ carried = 0
  /\ stopping = FALSE
  /\ idleExecutors = ThreadCount
  /\ workQueue = <<>>
  /\ poller = [p \in Pollers |-> "off"]
  /\ todo = [p \in Pollers |-> {}]
  /\ foundWork = [p \in Pollers |-> FALSE]
  /\ toRequest = [p \in Pollers |-> 0]
  /\ response = [p \in Pollers |-> <<>>]
  /\ executor = [x \in Executors |-> "off"]
  /\ job = [x \in Executors |-> None]
  /\ keepAlive = [x \in Executors |-> "none"]
  /\ clientMutex = None
  /\ handedOut = 0
  /\ reported = {}

-----------------------------------------------------------------------------
(* The owner.                                                              *)

\* The work queue is not emptied: it keeps what the last run left in it.
\* A poller whose subset of the definitions is empty returns at once.
Start ==
  /\ owner = "stopped"
  /\ starts < MaxStarts
  /\ owner' = "running"
  /\ starts' = starts + 1
  /\ carried' = Len(workQueue)
  /\ stopping' = FALSE
  /\ idleExecutors' = ThreadCount
  /\ poller' = [p \in Pollers |-> IF DefinitionsOf[p] = {} THEN "off"
                                                           ELSE "head"]
  /\ executor' = [x \in Executors |-> "ready"]
  /\ UNCHANGED <<workQueue, todo, foundWork, toRequest, response, job,
                 keepAlive, reported, clientMutex, handedOut>>

Stop ==
  /\ owner = "running"
  /\ owner' = "notify"
  /\ stopping' = TRUE
  /\ UNCHANGED <<starts, carried, idleExecutors, workQueue, pollerVars,
                 executorVars, clientMutex, handedOut>>

\* queueNotEmpty.notify_all: every waiting executor checks its predicate.
WokenExecutors ==
  [x \in Executors |-> IF executor[x] = "asleep" THEN "ready" ELSE executor[x]]

\* Mutant: stop wakes the pollers only.
NotifyAll_PollersOnly ==
  /\ owner = "notify"
  /\ owner' = "joinPollers"
  /\ poller' = [p \in Pollers |-> IF poller[p] = "wait" THEN "woken"
                                                        ELSE poller[p]]
  /\ UNCHANGED <<starts, carried, stopping, idleExecutors, workQueue, todo,
                 foundWork, toRequest, response, executorVars, clientMutex,
                 handedOut>>

NotifyAll ==
  /\ owner = "notify"
  /\ owner' = "joinPollers"
  /\ poller' = [p \in Pollers |-> IF poller[p] = "wait" THEN "woken"
                                                        ELSE poller[p]]
  /\ executor' = WokenExecutors
  /\ UNCHANGED <<starts, carried, stopping, idleExecutors, workQueue, todo,
                 foundWork, toRequest, response, job, keepAlive, reported,
                 clientMutex, handedOut>>

JoinPollers ==
  /\ owner = "joinPollers"
  /\ \A p \in Pollers : poller[p] = "off"
  /\ owner' = "joinExecutors"
  /\ UNCHANGED <<starts, carried, stopping, idleExecutors, workQueue,
                 pollerVars, executorVars, clientMutex, handedOut>>

JoinExecutors ==
  /\ owner = "joinExecutors"
  /\ \A x \in Executors : executor[x] = "off"
  /\ owner' = "stopped"
  /\ UNCHANGED <<starts, carried, stopping, idleExecutors, workQueue,
                 pollerVars, executorVars, clientMutex, handedOut>>

-----------------------------------------------------------------------------
(* Poller p.                                                               *)

\* slotsAvailable.notify_one: at most one waiting poller wakes up, to find its
\* predicate (only stopping) and perhaps to wait on.
NotifySlot(from) ==
  \/ /\ \A p \in Pollers : from[p] # "wait"
     /\ poller' = from
  \/ \E p \in Pollers :
       /\ from[p] = "wait"
       /\ poller' = [from EXCEPT ![p] = "woken"]

PollerHead(p) ==
  /\ poller[p] = "head"
  /\ poller' = [poller EXCEPT ![p] = IF stopping THEN "off" ELSE "cycle"]
  /\ todo' = [todo EXCEPT ![p] = IF stopping THEN {} ELSE DefinitionsOf[p]]
  /\ foundWork' = [foundWork EXCEPT ![p] = FALSE]
  /\ UNCHANGED <<mainVars, stopping, idleExecutors, workQueue, toRequest,
                 response, executorVars, clientMutex, handedOut>>

\* The next definition of the cycle, unless the pool is stopping.
NextDefinition(p) ==
  /\ poller[p] = "cycle"
  /\ todo[p] # {}
  /\ \/ /\ stopping
        /\ poller' = [poller EXCEPT ![p] = "head"]
        /\ todo' = [todo EXCEPT ![p] = {}]
     \/ /\ ~stopping
        /\ poller' = [poller EXCEPT ![p] = "reserve"]
        /\ \E d \in todo[p] : todo' = [todo EXCEPT ![p] = @ \ {d}]
  /\ UNCHANGED <<mainVars, stopping, idleExecutors, workQueue, foundWork,
                 toRequest, response, executorVars, clientMutex, handedOut>>

ReserveSlots(p) ==
  /\ poller[p] = "reserve"
  /\ \/ /\ idleExecutors <= 0
        /\ poller' = [poller EXCEPT ![p] = "cycle"]
        /\ UNCHANGED <<idleExecutors, toRequest>>
     \/ /\ idleExecutors > 0
        /\ LET n == Min({idleExecutors, MaxResultsPerPoll})
           IN  /\ toRequest' = [toRequest EXCEPT ![p] = n]
               /\ idleExecutors' = idleExecutors - n
        /\ poller' = [poller EXCEPT ![p] = "poll"]
  /\ UNCHANGED <<mainVars, stopping, workQueue, todo, foundWork, response,
                 executorVars, clientMutex, handedOut>>

Poll(p) ==
  /\ poller[p] = "poll"
  /\ clientMutex = None
  /\ clientMutex' = p
  /\ poller' = [poller EXCEPT ![p] = "calling"]
  /\ UNCHANGED <<mainVars, stopping, idleExecutors, workQueue, todo, foundWork,
                 toRequest, response, executorVars, handedOut>>

\* The server claims up to maxResults steps for the pool.  If the call throws,
\* the steps it claimed, if any, are lost to the pool.
PollReturns(p) ==
  /\ poller[p] = "calling"
  /\ clientMutex' = None
  /\ \E n \in 0..Min({toRequest[p], MaxSteps - handedOut}) :
       /\ handedOut' = handedOut + n
       /\ \/ /\ response' = [response EXCEPT ![p] =
                               [i \in 1..n |-> handedOut + i]]
             /\ poller' = [poller EXCEPT ![p] = "push"]
          \/ /\ poller' = [poller EXCEPT ![p] = "giveBack"]
             /\ UNCHANGED response
  /\ UNCHANGED <<mainVars, stopping, idleExecutors, workQueue, todo, foundWork,
                 toRequest, executorVars>>

\* Mutant: the poller returns all its slots, used or not.
UnusedSlots_All(p) == toRequest[p]

\* The slots a poller returns after its poll: those it got no step for.
UnusedSlots(p) == toRequest[p] - Len(response[p])

QueueSteps(p) ==
  /\ poller[p] = "push"
  /\ LET back == [poller EXCEPT ![p] = "cycle"]
     IN  IF UnusedSlots(p) > 0 THEN NotifySlot(back) ELSE poller' = back
  /\ idleExecutors' = idleExecutors + UnusedSlots(p)
  /\ workQueue' = workQueue \o response[p]
  /\ executor' = IF response[p] # <<>> THEN WokenExecutors ELSE executor
  /\ foundWork' = [foundWork EXCEPT ![p] = @ \/ response[p] # <<>>]
  /\ toRequest' = [toRequest EXCEPT ![p] = 0]
  /\ response' = [response EXCEPT ![p] = <<>>]
  /\ UNCHANGED <<mainVars, stopping, todo, job, keepAlive, reported,
                 clientMutex, handedOut>>

\* Mutant: a poll that throws keeps its slots.
GiveBackSlots_Leaked(p) ==
  /\ poller[p] = "giveBack"
  /\ NotifySlot([poller EXCEPT ![p] = "cycle"])
  /\ toRequest' = [toRequest EXCEPT ![p] = 0]
  /\ UNCHANGED <<mainVars, stopping, idleExecutors, workQueue, todo, foundWork,
                 response, executorVars, clientMutex, handedOut>>

GiveBackSlots(p) ==
  /\ poller[p] = "giveBack"
  /\ NotifySlot([poller EXCEPT ![p] = "cycle"])
  /\ idleExecutors' = idleExecutors + toRequest[p]
  /\ toRequest' = [toRequest EXCEPT ![p] = 0]
  /\ UNCHANGED <<mainVars, stopping, workQueue, todo, foundWork, response,
                 executorVars, clientMutex, handedOut>>

\* A cycle that found no work waits for pollInterval or for stop.
EndCycle(p) ==
  /\ poller[p] = "cycle"
  /\ todo[p] = {}
  /\ poller' = [poller EXCEPT ![p] =
                  IF foundWork[p] \/ stopping THEN "head" ELSE "wait"]
  /\ UNCHANGED <<mainVars, stopping, idleExecutors, workQueue, todo, foundWork,
                 toRequest, response, executorVars, clientMutex, handedOut>>

PollIntervalElapses(p) ==
  /\ poller[p] = "wait"
  /\ poller' = [poller EXCEPT ![p] = "head"]
  /\ UNCHANGED <<mainVars, stopping, idleExecutors, workQueue, todo, foundWork,
                 toRequest, response, executorVars, clientMutex, handedOut>>

\* The wait's predicate is stopping alone, so a freed slot does not end it.
PollerWakes(p) ==
  /\ poller[p] = "woken"
  /\ poller' = [poller EXCEPT ![p] = IF stopping THEN "head" ELSE "wait"]
  /\ UNCHANGED <<mainVars, stopping, idleExecutors, workQueue, todo, foundWork,
                 toRequest, response, executorVars, clientMutex, handedOut>>

-----------------------------------------------------------------------------
(* Executor x and its KeepAliveThread.                                     *)

\* Mutant: an executor copies the front of the queue and leaves it there.
TakeStep_Copied(x) ==
  /\ executor[x] = "ready"
  /\ workQueue # <<>>
  /\ job' = [job EXCEPT ![x] = Head(workQueue)]
  /\ \/ /\ executor' = [executor EXCEPT ![x] = "handling"]
        /\ keepAlive' = [keepAlive EXCEPT ![x] = "waiting"]
     \/ /\ executor' = [executor EXCEPT ![x] = "report"]  \* no such handler
        /\ UNCHANGED keepAlive
  /\ UNCHANGED <<mainVars, stopping, idleExecutors, workQueue, pollerVars,
                 reported, clientMutex, handedOut>>

\* The predicate of the wait on queueNotEmpty holds, or the executor sleeps.
TakeStep(x) ==
  /\ executor[x] = "ready"
  /\ workQueue # <<>>
  /\ workQueue' = Tail(workQueue)
  /\ job' = [job EXCEPT ![x] = Head(workQueue)]
  /\ \/ /\ executor' = [executor EXCEPT ![x] = "handling"]
        /\ keepAlive' = [keepAlive EXCEPT ![x] = "waiting"]
     \/ /\ executor' = [executor EXCEPT ![x] = "report"]  \* no such handler
        /\ UNCHANGED keepAlive
  /\ UNCHANGED <<mainVars, stopping, idleExecutors, pollerVars, reported,
                 clientMutex, handedOut>>

\* Mutant: an executor leaves when the pool stops, whatever is queued.
SleepOrExit_QueueIgnored(x) ==
  /\ executor[x] = "ready"
  /\ workQueue = <<>> \/ stopping
  /\ executor' = [executor EXCEPT ![x] = IF stopping THEN "off" ELSE "asleep"]
  /\ UNCHANGED <<mainVars, stopping, idleExecutors, workQueue, pollerVars, job,
                 keepAlive, reported, clientMutex, handedOut>>

SleepOrExit(x) ==
  /\ executor[x] = "ready"
  /\ workQueue = <<>>
  /\ executor' = [executor EXCEPT ![x] = IF stopping THEN "off" ELSE "asleep"]
  /\ UNCHANGED <<mainVars, stopping, idleExecutors, workQueue, pollerVars, job,
                 keepAlive, reported, clientMutex, handedOut>>

\* run pings while it holds the KeepAliveThread's own mutex.
PingDue(x) ==
  /\ keepAlive[x] = "waiting"
  /\ keepAlive' = [keepAlive EXCEPT ![x] = "pinging"]
  /\ UNCHANGED <<mainVars, stopping, idleExecutors, workQueue, pollerVars,
                 executor, job, reported, clientMutex, handedOut>>

Ping(x) ==
  /\ keepAlive[x] = "pinging"
  /\ clientMutex = None
  /\ clientMutex' = KeepAlive(x)
  /\ keepAlive' = [keepAlive EXCEPT ![x] = "calling"]
  /\ UNCHANGED <<mainVars, stopping, idleExecutors, workQueue, pollerVars,
                 executor, job, reported, handedOut>>

PingReturns(x) ==
  /\ keepAlive[x] = "calling"
  /\ clientMutex' = None
  /\ keepAlive' = [keepAlive EXCEPT ![x] = "waiting"]
  /\ UNCHANGED <<mainVars, stopping, idleExecutors, workQueue, pollerVars,
                 executor, job, reported, handedOut>>

\* The handler returns or throws.
HandlerEnds(x) ==
  /\ executor[x] = "handling"
  /\ executor' = [executor EXCEPT ![x] = "joining"]
  /\ UNCHANGED <<mainVars, stopping, idleExecutors, workQueue, pollerVars, job,
                 keepAlive, reported, clientMutex, handedOut>>

\* Mutant: the KeepAliveThread is told to finish, and not joined.
JoinKeepAlive_Detached(x) ==
  /\ executor[x] = "joining"
  /\ executor' = [executor EXCEPT ![x] = "report"]
  /\ UNCHANGED <<mainVars, stopping, idleExecutors, workQueue, pollerVars, job,
                 keepAlive, reported, clientMutex, handedOut>>

\* ~KeepAliveThread needs the mutex a ping holds, and joins the thread.
JoinKeepAlive(x) ==
  /\ executor[x] = "joining"
  /\ keepAlive[x] = "waiting"
  /\ keepAlive' = [keepAlive EXCEPT ![x] = "none"]
  /\ executor' = [executor EXCEPT ![x] = "report"]
  /\ UNCHANGED <<mainVars, stopping, idleExecutors, workQueue, pollerVars, job,
                 reported, clientMutex, handedOut>>

Report(x) ==
  /\ executor[x] = "report"
  /\ clientMutex = None
  /\ clientMutex' = x
  /\ executor' = [executor EXCEPT ![x] = "calling"]
  /\ UNCHANGED <<mainVars, stopping, idleExecutors, workQueue, pollerVars, job,
                 keepAlive, reported, handedOut>>

\* completeWorkflowStep or failWorkflowStep returns or throws; no matter which.
ReportReturns(x) ==
  /\ executor[x] = "calling"
  /\ clientMutex' = None
  /\ executor' = [executor EXCEPT ![x] = "release"]
  /\ reported' = reported \cup {job[x]}
  /\ UNCHANGED <<mainVars, stopping, idleExecutors, workQueue, pollerVars, job,
                 keepAlive, handedOut>>

ReleaseSlot(x) ==
  /\ executor[x] = "release"
  /\ executor' = [executor EXCEPT ![x] = "ready"]
  /\ job' = [job EXCEPT ![x] = None]
  /\ idleExecutors' = idleExecutors + 1
  /\ NotifySlot(poller)
  /\ UNCHANGED <<mainVars, stopping, workQueue, todo, foundWork, toRequest,
                 response, keepAlive, reported, clientMutex, handedOut>>

-----------------------------------------------------------------------------
PollerStep(p) ==
  \/ PollerHead(p) \/ NextDefinition(p) \/ ReserveSlots(p) \/ Poll(p)
  \/ PollReturns(p) \/ QueueSteps(p) \/ GiveBackSlots(p) \/ EndCycle(p)
  \/ PollerWakes(p)

ExecutorStep(x) ==
  \/ TakeStep(x) \/ SleepOrExit(x) \/ HandlerEnds(x) \/ JoinKeepAlive(x)
  \/ Report(x) \/ ReportReturns(x) \/ ReleaseSlot(x)

KeepAliveStep(x) == PingDue(x) \/ Ping(x) \/ PingReturns(x)

StopStep == NotifyAll \/ JoinPollers \/ JoinExecutors

Next ==
  \/ Start \/ Stop \/ StopStep
  \/ \E p \in Pollers : PollerStep(p) \/ PollIntervalElapses(p)
  \/ \E x \in Executors : ExecutorStep(x) \/ KeepAliveStep(x)

Spec == Init /\ [][Next]_vars

\* Threads are scheduled, calls return, handlers end, and a mutex that is free
\* again and again is eventually granted.  Nothing makes the owner stop.
ThreadFairness ==
  /\ WF_vars(StopStep)
  /\ \A p \in Pollers : SF_vars(PollerStep(p))
  /\ \A x \in Executors :
       SF_vars(ExecutorStep(x)) /\ SF_vars(Ping(x) \/ PingReturns(x))

\* Nothing bounds pollInterval: a wait that is not notified may last.
FairSpec == Spec /\ ThreadFairness

-----------------------------------------------------------------------------
(* Properties.                                                             *)

Busy == {x \in Executors :
           executor[x] \in {"handling", "joining", "report", "calling",
                            "release"}}

\* Every executor slot is accounted for: idle, reserved by a poller, promised
\* to a queued step, or busy; none is leaked or given back twice, whatever a poll
\* returns or throws.  A pool that is started again counts every executor as idle
\* although steps are queued, so there are as many slots more, for as long as it
\* runs (see ClaimsFitExecutors).
Reserved == Cardinality(UNION {{p} \X (1..toRequest[p]) : p \in Pollers})

SlotConservation ==
  idleExecutors + Reserved + Len(workQueue) + Cardinality(Busy)
    = ThreadCount + carried

\* "Steps are never claimed faster than they can be executed": the steps that
\* are queued or being run have an executor each.
ClaimsFitExecutors == Len(workQueue) + Cardinality(Busy) <= ThreadCount

\* "complete/fail always follows last ping": no ping is under way once an
\* executor has begun to report, so none can renew what is being completed.
PingsEndBeforeReport ==
  \A x \in Executors :
    executor[x] \in {"report", "calling", "release"} => keepAlive[x] = "none"

Queued(s) == \E i \in 1..Len(workQueue) : workQueue[i] = s

\* A claimed step is run by one executor, once: pollers that poll at the same
\* time, executors woken together and a second start do not run it again.
RunOnce ==
  /\ \A s \in reported : ~Queued(s)
  /\ \A x \in Executors : job[x] # None =>
       /\ ~Queued(job[x])
       /\ \A y \in Executors \ {x} : job[y] # job[x]
       /\ job[x] \in reported => executor[x] = "release"

\* A step that is queued when the pool is not stopping is run and reported on,
\* even when stop is called before an executor takes it.
QueuedStepReported ==
  \A s \in StepIds : (Queued(s) /\ ~stopping) ~> (s \in reported)

\* stop() returns: no lost wake-up and no circle of waiting threads.
StopReturns == (owner = "notify") ~> (owner = "stopped")

\* When stop() has returned, no claimed step is left behind.
NothingAbandoned == owner = "stopped" => workQueue = <<>>

=============================================================================
