# TLA+ model of wf

`wf` is a workflow engine in C++. An orchestrator keeps workflow definitions,
executions, step executions and singleton locks in an `mt` database; workers
poll it for steps, run them and report. This directory holds a TLA+ model of
it, the TLC runs that check the model on small instances, and TLAPS proofs that
hold for instances of any size.

    tlc -config Orchestrator_lifecycle.cfg MCOrchestrator    # one run
    tlapm OrchestratorProofs.tla                             # the proofs

`PROJECT.json` lists the runs, the source lines every definition models, the
hazards the properties are aimed at, and for every property a mutant of the code
that violates it.

## The system

| Component | State | Operations | Talks to |
|---|---|---|---|
| `WorkflowOrchestrator` | four tables: definitions, executions, singleton locks, step executions | register, start, poll and claim, keep alive, complete, fail, cancel, sweep | `mt` (one transaction per operation), `WorkflowLogic` (which step is next) |
| `WorkflowService` | the sweep thread, `stopping_`, its mutex and condition variable | forwards every call; sweeps every `sweepInterval`; stops in its destructor | orchestrator |
| `WorkflowWorkerPool` | poller and executor threads, the work queue, `idleExecutors`, `stopping`, a state mutex, a client mutex, two condition variables | start, stop, poll, run a step, report | the client |
| `KeepAliveThread` | a thread, `done`, a mutex | ping every interval; destructor stops and joins | the client, through its owner's ping |
| `WorkflowWorker` | one thread that polls, runs and reports | start, stop | the client |
| `StepOutputRoutingLogic` | none | chooses the next step from the step's output | - |
| `Duration` | none | parses ISO-8601 durations; the lease is a third of one, and at least a second | - |
| Workflow JSON | none | validates, parses and formats definitions and rows | - |
| `WorkflowHttpServer` | httplib's listening socket, accept loop and threads | bind, start, stop; ten handlers; a status for each exception | service |
| `HttpTransport`, `InProcessTransport`, `WorkflowClient` | a connection per call | turn calls into requests, statuses into exceptions | server, or service |
| Command line | `g_server` | `wf serve` until a signal; commands that make one call and exit with 0 or 1 | server, or client |

An execution is one row with a current step and attempt. The step rows are a
second table keyed by execution, step and attempt. `startWorkflow` writes the
first row of both; a worker's poll claims a row and gives it a lease; the worker
renews the lease while it runs the step, then completes it (next step, or the end
of the workflow) or fails it (retry, or the end). The sweep treats an expired
lease as a failure; a poll may instead claim the expired row again. Cancellation
may come at any time.

### What is hard about it

* Several parties act on one execution: its worker, another worker that takes
  over an expired claim, the sweep, a caller that cancels. Each reads a clock of
  its own, and each report may come late or twice. A poll looks only at step
  rows and a report only at the current attempt, so the two tables must agree
  after every operation or a dead execution is run again.
* Definitions can be registered again while their executions run, and every
  operation reads the definition registered last.
* The sweep runs in a thread of the service; the service may be destroyed at any
  moment of it, and nothing catches what a sweep throws.
* The pool has pollers, executors, keep-alive threads and an owner around two
  mutexes and two condition variables; slots are reserved in one place and given
  back in four; stop may come at any moment.
* A call may fail for the caller after it has acted on the server, or be taken
  after its caller has given up. Reports carry a worker id and no attempt.
* A transaction reads, computes and commits with others in between; a caller may
  own it and keep it open.
* A signal may find `wf serve` at any point of its life, with requests waiting,
  being handled or half answered.

`PROJECT.json` lists each of these as a hazard at the line where it bites.

## The modules

| Module | Models |
|---|---|
| `Orchestrator` | `src/workflow_orchestrator.cpp`: the tables and every operation |
| `WorkflowLifecycle` | what the orchestrator promises per execution; no tables, leases or clock |
| `OrchestratorTransactions` | extends `Orchestrator`: an operation as a transaction that reads, computes and commits at different moments |
| `WorkflowService` | `src/workflow_service.cpp`: extends `Orchestrator` with the sweep thread and the destructor |
| `WorkerPool` | `src/workflow_worker_pool.cpp` and `src/keep_alive_thread.hpp` |
| `WorkflowWorker` | `src/workflow_worker.cpp` and `src/keep_alive_thread.hpp`: extends `Orchestrator` with workers on the same clock as the leases |
| `WorkflowDefinitions` | definitions in `src/workflow_json.cpp`, `src/duration.cpp` and the row conversions |
| `WorkflowHttp` | `src/http/workflow_http_server.cpp`, `src/transport/`, `cmd/main.cpp` and `src/logic/`: extends `Orchestrator` with `wf serve` and those who call it |
| `OrchestratorProofs`, `OrchestratorTransactionsProofs`, `WorkflowServiceProofs`, `WorkerPoolProofs`, `WorkflowWorkerProofs`, `WorkflowDefinitionsProofs`, `WorkflowHttpProofs` | theorems about the module each is named after |
| `MCOrchestrator`, `MCOrchestratorTransactions`, `MCWorkflowService`, `MCWorkerPool`, `MCWorkflowWorker`, `MCWorkflowDefinitions`, `MCWorkflowHttp` | values of the constants for TLC |

### Orchestrator

Each table is a function; `None` is a row that is not there. A step row keeps
status, worker, lease, creation time, scheduled time and input; outputs, states,
reasons and the two time stamps no operation reads are left out. A definition
keeps its singleton flag, its first step, and for every step `maxRetries` and
whether (and how long) a lease can be computed for it: `lease = None` stands for
a missing `expectedExecutionTime` and for one the duration parser rejects.

Each operation is one action, because each is one transaction of `mt`, which is
optimistic and retried until it commits; `OrchestratorTransactions` shows why that
is enough. An operation that throws leaves no
trace, so what the code throws on is negated in the guard; in particular a poll
throws as a whole when one row it would claim has no lease, and a sweep when one
step it would fail is not defined. The clock is a variable. A transaction reads
it some ticks before it commits (`ClockReadings`, at most `MaxClockLag`), and an
operation that reads it twice reads it twice in the model. Time stamps keep
microseconds in the database, so storing one is modelled as exact.

Workers are not modelled here: any worker may report on any step at any time,
which covers reports that are late, repeated, lost, or sent by a worker that no
longer holds the claim. `CompleteWorkflow` and `CompleteStep` together are
`completeStep`: the decision of `WorkflowLogic` is any decision.

Bounds: `MaxAttempt` bounds `maxRetries`, and `TypeOK` shows that no attempt
passes it; `MaxTime` ends the clock, and an operation that would write a later
time stamp is disabled; `MaxBatch` bounds `maxResults`.

### WorkflowLifecycle

An execution is offered, claimed, handed on, retried, finished or canceled, one
execution at a time, except that a poll claims several and a sweep fails several
at once. `Orchestrator!Life(e)` is the refinement mapping: the execution's row
and its current attempt's, with every other row forgotten. `LifecycleSpec` says
that forgetting is harmless: no operation on any of the four tables shows
through except as a lawful step.

### OrchestratorTransactions

The step from a transaction to one action rests on what each operation reads
through its transaction, and on `mt` refusing to commit one whose reads have
changed (the repository's README says that it validates row reads and predicate
reads; `mt` itself is not part of the repository). `StartReads`, `PollReads`,
`ReportReads`, `CancelReads` and `SweepReads` list those reads operation by
operation. `Run` takes the operation on the tables the transaction sees; other
operations commit beside it; `Commit` puts its rows over the tables as they are
then. `AtomicSpec` says that the result is a behaviour of `Orchestrator`, in which
the operation is one step, at the commit, that read a clock of some ticks before.
`MaxClockLag` bounds that age, and with it how long a transaction may last;
`MaxLagBeside` is the same bound for the others. In the run the first is the whole
of the clock, so that no transaction is refused for its age. A transaction whose
reads have changed is dropped at once: it can only be refused. The transaction may be one a caller
owns, which may keep it open for as long as it likes or abort it; the overloads
that take a caller's transaction are the same functions.

One transaction is slow and the others take one step. That is enough for any two:
each commits as a whole, so the earlier commit is one step to the later one.

### WorkflowService

`sweeper` is where the thread is in `runSweepLoop`, `owner` where the owner is
between construction and the return of the destructor. The mutex is held between
waits, so what runs under it is one action; the sweep itself is an action of its
own, with the mutex free. `PolledForOne` is the poll that a `WorkflowWorker`
repeats; `OldestStepServed` needs that some worker does. A timeout and a notification both lead to "awake",
where the code looks at `stopping_` again. A sweep that throws ends the process.

### WorkerPool

`poller`, `executor` and `keepAlive` are program counters. What the code does
under the state mutex is one action. The client mutex is held across a call to
the server, so it is a variable, and a call is two actions. The server is
reduced to the steps it hands out, numbered as they are claimed; a poll may throw
before or after the server has claimed. `notify_one` wakes one waiting poller,
which looks at its predicate and may wait again. The pool may be started again
after a stop, and finds what the first run left queued; `carried` remembers how
much, because `start` counts every executor as idle all the same. `SlotConservation`
says that this surplus is all there ever is, that no slot is lost or made
otherwise; that there is none, which the header promises, is `ClaimsFitExecutors`,
and the run `pool_restarted` refutes it.

### WorkflowWorker

`Orchestrator` lets any worker report at any time; here the calls come from
threads, in the order of `run` and `executeStep`, each with a `KeepAliveThread`
whose countdown `pingIn` shares the clock of the leases. Threads may share a
worker id: nothing keeps two processes from it, and the executors of a pool do
it by design. A call is one action, with every delay before or after it; or it is
lost; or its caller gives up (`GiveUp`) and the server takes it later
(`TakeStray`), when the thread may be at another step, at another attempt of the
same one, or dead. `Connections` are what such calls wait in: any number of them,
of any threads, in the theorems, and one in the run.

Two variables are history. `fate` is what has become of a thread's claim: held,
lost, or followed by a later claim of the step under the same id, which the
orchestrator cannot tell from the first. `atRisk` says that the thread let time pass
while it owed a call, had a ping lost, or shares its id with another call about
the same step.

### WorkflowDefinitions

`RegisterWorkflowDefinition` is the service's call: validate, parse, store. A
document's field is a value, `None` (no key) or `Wrong` (another JSON type); a
duration is its seven parts; a name is a model value, and `ValidNames` are those
that match the pattern. The error messages are left out, so only whether a
document is let in is kept of them. Integers narrow as `static_cast<int>` does and
durations wrap as the build's `long long` does; the limits are constants, 2^31 and
2^63 in the code and 2^7 and 2^18 in the run, which keeps the amounts within what
TLC can count. `LetInAsAssumed` is
the bridge to `Orchestrator`: it is what that module assumes of its definitions.
It is less than the documentation says of them: numbers are narrowed before their
bounds are checked, and the pattern for durations lets in years, months and weeks,
which the parser refuses, so that such a step never has a lease and every poll that
reaches it throws. What the documentation says is `LetInAsDocumented`, and the run
`definitions_documented` refutes it.
`ToJson` is the document the HTTP server answers a registration with, which
`HttpTransport` validates and parses like any other (`ReadBackAsAnswered`).
`LetInAsAssumed` holds of the service; a caller that hands a `WorkflowDefinition` to the
orchestrator itself has only its name and version checked.

### WorkflowHttp

`main` is where `cmdServe` is, `open` the listening socket, `job` what the server
has of each caller's call: a connection in the backlog, an accepted one, or an
answer not yet written. A handler is one action, `Handle`: it chooses a request,
valid or not, and takes the orchestrator's operation or one of the exceptions the
service would throw now (`Throws`). `handleException` turns that into a status by
looking for "not found" in its text, and `checkResponse` turns the status into an
exception again. `Signal` is `handleSignal`, with what `httplib::Server::stop` does
at each point: it closes the socket, does nothing, or fails its assertion (the
`Makefile` does not define `NDEBUG`). After a crash or a stop the server may be
started again on the same tables. `seen`, `answered` and `done` record what a
caller was told and what became of its call.

The parts of httplib that matter are taken from the copy under `third_party/`:
the accept loop, the thread pool that empties its queue before it is joined, and
connections that are closed unread once the socket is closed.
`StepOutputRoutingLogic` is `NextStep`.

## The runs

| Run | Shows |
|---|---|
| `lifecycle` | Two executions, two workers, a two-step workflow with a retry and a one-step singleton, batches of two. `OneActiveStep`: the tables agree. `RetriesExhausted`: exactly `maxRetries` retries. `SingletonExclusive`. `LiveLeaseRespected`: a step that changes a row under a live lease is a report its holder may make or a cancellation, and cannot be another worker's report, a poll or a sweep. `LifecycleSpec`. |
| `transactions` | Two executions of a singleton that may be registered again at any time as none, with fewer retries and no usable duration; one worker; one slow transaction of any operation, whose clock readings may be as old as the run. `AtomicSpec`, `OneActiveStep`, `TerminalFrozen`. |
| `service` | The sweep thread and the destructor around the operations on two executions, with a step that may be removed. `LapsedLeaseResolved`, `DestructorReturns`, `QuietOnceGone`; `OldestStepServed`: the oldest step is handed out and is not overtaken for ever. |
| `pool` | A poller with a definition and one with none, two executors, two steps, two starts. `SlotConservation`, `PingsEndBeforeReport`, `RunOnce`: a claimed step is in one place, and is not run again once it is reported. `QueuedStepReported`, `StopReturns`. |
| `worker` | Two threads of one worker id and a worker of another, one execution of one step with a retry, two inputs, delayed steps, a lease of two ticks and a ping every tick, lost and belated calls, crashes. `OnTimeKeepsClaim`: a thread that is on time holds a live claim until it reports, unless it is canceled. `LostTaskUntouched`: a ping or report about a lost claim changes nothing, whenever it is taken. `RetryChain`: the attempts before the current one failed, on its input. |
| `http` | Two callers, one execution of a workflow registered with and without a usable duration. `TransportsAgree`, `ExitStatusTruthful`, `NothingUsedOnceDestroyed`, `SignalEndsServe`, `EveryCallEnds`. |
| `definitions` | About 1400 documents: the top-level fields right and wrong in every combination, one and two steps, amounts that narrow and wrap. `LetInAsAssumed`, `LeaseNeverTooLong`, `AnsweredAsStored`, `ReadBackAsAnswered`. |

Five runs end in a violation, each of something the repository says of itself:

| Run | What the code does |
|---|---|
| `turned_singleton` | An execution started before its workflow became a singleton holds no lock, so a second starts beside it. |
| `service_step_removed` | A worker dies at a step; the workflow is registered again without that step; the next sweep throws out of its thread and `std::terminate` ends the process. |
| `pool_stopped_while_polling` | `stop` comes while a poller is in its poll. The executors find the queue empty and leave; the poller queues what it claimed; nobody runs it. The steps stay claimed until their leases expire. |
| `pool_restarted` | Steps that were left so are in the queue when the pool is started again. `start` sets `idleExecutors` to all executors, and the pollers claim as many steps beside them. |
| `definitions_documented` | A document whose `workflowVersion` and `maxRetries` are negative and narrow to 1, and whose durations are weeks, is validated, parsed and stored. |

One more thing the modelling met is in the model and has no run of its own. A
poller's wait has `stopping` alone for its predicate, so the notification a freed
slot sends, which `docs/wf-worker-pool-sequence.puml` describes as a wake-up, does
not end it (`PollerWakes`).

The bounds are the smallest that let each case happen. Two executions are needed
for a batch that succeeds or throws as a whole and for two starts of a singleton;
two workers for a takeover; two steps and one retry for a step to be revisited
while an attempt of the earlier visit is still in its table; a clock of three
ticks for a lease to be granted, renewed and lost. In `pool`, with two executors
a poll can come back with fewer steps than it reserved; with two steps and a second
start, a step the first run left behind is in the queue while the pool claims again.
One of its pollers has no definition and leaves at once, so two that compete for slots
are in the theorems only.
In `worker` the lease must outlast the ping interval, or no worker is ever on time:
the defaults (a ping every 5 s, a lease of a third of the expected time) give that
only to steps expected to take 18 s or more. Four ticks let a lease be renewed,
lost and granted again; one call at a time is one its thread gave up on, which is
what one connection allows.
In `transactions`, two ticks let a transaction read the clock before a lease
expires and commit after. In `http` one lease and one retry less change nothing a
caller is told, so one tick and no retry are enough; a caller makes its next call
when the server has nothing left of the last. Symmetry is used over executions and workers, or over threads and inputs in `worker`,
where no temporal property is checked beyond action properties.

Deadlock is not checked: the models stop when their bounded clock, steps or
starts run out. That the pool and the service cannot get stuck is what
`StopReturns`, `QueuedStepReported` and `DestructorReturns` say.

### Fairness

* `HttpSpec`: the threads of the server and of `wf serve` run, transactions
  commit, and a caller whose connection is gone learns of it. No timeout is
  relied on, nor a further call.
* `FairServiceSpec`: the sweep thread is scheduled and its transactions commit, and
  some worker of each workflow goes on polling.
  Its interval elapses while the service is in use; in the destructor it need
  not, which is what "shutdown is immediate" amounts to.
* `WorkerPool!FairSpec`: threads are scheduled, handlers end, calls return, and a
  thread that waits for a mutex that is free again and again gets it (strong
  fairness of each thread; the standard promises no more than that a mutex is not
  held for ever). Where a thread is decides which step it can take next.
  Nothing forces `pollInterval` to elapse, nor the owner to stop.

## What is proved

The theorems hold for every number of executions, workflows, workers, threads,
callers and steps, every definition, document and bound. Every safety property that a passing run
checks is one of them, and so is the refinement of each module that extends
`Orchestrator`.

| Module | Theorem | States |
|---|---|---|
| `OrchestratorProofs` | `TypeCorrect` | `Spec => []TypeOK` |
| | `ExecutionAndStepsAgree` | `Spec => []OneActiveStep` |
| | `EndedExecutionsFrozen` | `Spec => TerminalFrozen` |
| | `RetriesKeepTheirInput` | `Spec => []RetryChain` |
| | `RetriesAreExhausted` | `Spec => []RetriesExhausted`, if no registration changes a `maxRetries` |
| | `LiveLeasesRespected` | `Spec => LiveLeaseRespected` |
| | `SingletonsExclusive` | `Spec => []SingletonExclusive`, if no workflow changes its singleton flag |
| | `ImplementsLifecycle` | `Spec => LifecycleSpec` |
| `OrchestratorTransactionsProofs` | `TransactionTypeCorrect` | `TransactionSpec => []TransactionTypeOK` |
| | `TransactionsAreAtomic` | `TransactionSpec => AtomicSpec` |
| `WorkflowServiceProofs` | `ServiceImplementsOrchestrator` | `ServiceSpec => Spec` |
| | `ServiceKeepsTables` | `OneActiveStep`, `RetryChain`, `TerminalFrozen` and `LiveLeaseRespected` of the service |
| | `ServiceTypeCorrect` | `ServiceSpec => []ServiceTypeOK` |
| | `QuietAfterDestruction` | `ServiceSpec => QuietOnceGone` |
| `WorkerPoolProofs` | `PoolTypeCorrect` | `Spec => []TypeOK` |
| | `SlotsConserved` | `Spec => []SlotConservation` |
| | `NoPingDuringReport` | `Spec => []PingsEndBeforeReport` |
| | `StepsRunOnce` | `Spec => []RunOnce` |
| | `OneCallAtATime` | `Spec => []ClientExclusive`: no two calls on the pool's client overlap |
| `WorkflowWorkerProofs` | `WorkersImplementOrchestrator` | `WorkerSpec => Spec` |
| | `WorkersKeepTables` | the same four of the workers |
| | `WorkerTypeCorrect` | `WorkerSpec => []WorkerTypeOK` |
| | `LostClaimsTouchNothing` | `WorkerSpec => LostTaskUntouched` |
| | `OnTimeThreadsKeepTheirClaims` | `WorkerSpec => []OnTimeKeepsClaim`, if every lease outlasts a ping interval and the lag of a clock reading |
| `WorkflowDefinitionsProofs` | `DefinitionsTypeCorrect` | `Spec => []TypeOK` |
| | `LetInIsAsAssumed` | `Spec => []LetInAsAssumed` |
| | `LeasesAreNeverTooLong` | `Spec => []LeaseNeverTooLong` |
| | `AnswersAreAsStored` | `Spec => []AnsweredAsStored` |
| | `AnswersAreReadBack` | `Spec => []ReadBackAsAnswered` |
| `WorkflowHttpProofs` | `HttpImplementsOrchestrator` | `HttpSpec => Spec` |
| | `HttpKeepsTables` | the same four of the server, across its crashes and restarts |
| | `HttpTypeCorrect` | `HttpSpec => []HttpTypeOK` |
| | `TransportsTellTheSame` | `HttpSpec => []TransportsAgree` |
| | `ExitStatusesAreTrue` | `HttpSpec => []ExitStatusTruthful` |
| | `ServerOutlivesItsRequests` | `HttpSpec => []NothingUsedOnceDestroyed` |

### The arguments

**Orchestrator.** The argument has one middle layer. Every operation is shown to be
a *move* of each execution - it stays the same, begins, is held (claimed or
renewed), finished, advanced, failed or canceled - in lemmas named after the
operation (`StartMoves`, `PollMoves`, ...). What is left is to check seven moves,
not ten operations, against each property.

`OneActiveStep` is not inductive: it says nothing of an execution that has not
started, which a step row could precede. `TablesAgree` adds that it has no rows.
`TerminalFrozen` needs `TablesAgree`: a poll does not look at the execution, so
an ended one is out of its reach only because none of its rows is active.
`RetryChain` needs it too, because a revisit overwrites rows from attempt 0 on.
For singletons the invariant adds that the running execution of a singleton is
the one its lock points at. The refinement combines the moves with
`TablesAgree`, which is what lets the mapping look at one row only.
`SingletonsExclusive` and `RetriesAreExhausted` are about definitions that stay the
same in the field that matters; `turned_singleton` refutes the first without that, and
a registration with fewer retries would refute the second.

**Transactions.** That an operation may be taken as one step is the assumption under
every other theorem, and is proved operation by operation. A *draft* is what an
operation has written when it is done: the rows it puts. `StartDrafted` ...
`SweepDrafted` show that what a transaction sees differs from the tables it started
from by its draft, and `OperationTaken` that a draft put over the tables as they
are is the operation itself, taken now. The `Stays` lemmas say that a draft stays
what the operation would write as long as the operation's reads are unchanged: here
each set of reads is shown to be large enough, down to the rows that a sweep or a
poll reads of executions it then leaves alone. `TransactionInv` says that at every
moment an open transaction is one that could be committed now.

**Service, workers, HTTP.** Each step is shown to be a step of `Orchestrator` or to
leave its tables alone, so the theorems about the tables hold of all three
(`ServiceKeepsTables`, `WorkersKeepTables`, `HttpKeepsTables`). `QuietOnceGone` needs that the thread is
joined when the destructor returns. `LostTaskUntouched` rests on what `fate` says:
whatever a claim that was lost leaves behind, no row answers to it. For
`OnTimeKeepsClaim` the invariant is `ClaimsKept`: between a ping and the next, the
lease ends later than the ping is due. It needs leases that outlast the interval and
`MaxClockLag`, `LeaseOutlastsInterval`, which is not so for every definition the service lets in
(see the run `worker`), hence the hypothesis. `ExitStatusTruthful` needs the
invariant `CallsTold`, which follows a call from its handler to the caller's exit:
what it was answered agrees with what was done at every point, the answers lost on
the way included. For `NothingUsedOnceDestroyed`, `ServerInv` adds that the socket is
open only between the bind and a signal or an exit.

**Pool.** `ThreadsInv` says what a poller carries from its reservation to its return
to the cycle, which executors have a step and a keep-alive thread, and that the
threads are joined before the pool counts as stopped. Each term of `SlotConservation`
is then the number of something that one thread changes by what another term gains;
the reserved slots are counted as a set of pairs, as a sum would be a recursion.
`RunOnce` needs more than it says: `StepsApart` holds that the steps on their way from
a poll to the queue are new as well, and apart from those of every other poller.

**Definitions.** Everything follows from `Sound`: a definition in the table would be
let in again, and has no number that narrowing would change. The lemmas about
`Wrap` say that it fits, that it keeps what fits, and that it lowers what does not.

### From which assumptions

All of them are named and are evaluated by TLC in a run.

* `Orchestrator`: the bounds are naturals (`BoundsAssumption`), `None` is no row
  (`NoneAssumption`), and a definition's first step is one of its steps
  (`DefinitionsAssumption`), as `validateWorkflowJson` checks and `LetInIsAsAssumed` proves.
* `OrchestratorTransactions`: the others lag no more than the slow transaction may
  (`LagAssumption`).
* `WorkerPool`: there are finitely many threads and at least one executor
  (`PoolAssumption`); a `KeepAliveThread` is a thread of its own (`KeepAliveAssumption`).
* `WorkflowWorker`: the interval is positive and every thread has an id
  (`IntervalAssumption`, `IdAssumption`); a poll may ask for one step (`OneStepAssumption`).
* `WorkflowDefinitions`: an `int` is no wider than a `long long`, a name that matches the
  pattern is a name, and a document has the keys the model gives it
  (`WidthsAssumption`, `NamesAssumption`, `DocumentsAssumption`).
* The value that stands for nothing is none of those it stands among
  (`NoTransactionAssumption`, `NoTaskAssumption`, `NoCallAssumption`, `NoValueAssumption`).

`mt`'s refusal of a transaction whose reads have changed is in the model of a
transaction, not proved of `mt`.

### Only model-checked

The liveness properties: `LapsedLeaseResolved`, `OldestStepServed`,
`DestructorReturns`, `QueuedStepReported`, `StopReturns`, `SignalEndsServe` and
`EveryCallEnds`. TLAPS proves nothing under fairness. The five violations are
counterexamples of TLC's.

## Not modelled

`mt` itself: that it refuses to commit a transaction whose row reads or query
results have changed is taken from the repository's README, and that `retry` goes
on until it commits from how it is used. Its own failures are left out, and with
them the `mt::BackendError` that the server answers with 400; `TransportsAgree` is
about what the service itself throws. A caller that catches what an operation
throws inside its own transaction, and commits what the operation had put so far,
breaks the agreement of the tables (`completeStep` puts a row before its last
check); the overloads leave the abort to the caller, and the model takes it to
abort. Two operations in one transaction of a caller's are left out, and a slow
transaction reads the clock once where some operations read it again later.

Of the command line: the parsing of arguments, the printing, and `validate` and
`parse`, which need no server. Of the server and the transports: the text of
errors (a name with "not found" in it would turn a 409 into a 404), the fields of
answers, the 500 that an exception which is no `std::runtime_error` gets, the narrowing
of `maxResults`, which no caller in the repository makes large enough to matter, and an
accept loop that ends because `accept` fails for good, without a signal. Executions and steps are formatted
and copied field by field. The `putWorkflowExecution` and
`putWorkflowStepExecution` functions write rows unchecked and are called by tests
only.

## Plan

1. Done: the orchestrator with its lifecycle, transactions and proofs; the service;
   the pool and its second start; the worker, shared ids and belated calls;
   definitions, durations and their way back to the caller; HTTP, transports and
   `wf serve`.
2. Done: every safety property of every passing run, and every refinement, proved.
3. Proofs left: that what `LetInAsAssumed` says of the table is the assumption of
   `Orchestrator`, as an instance of one in the other.
4. A workflow of several pools: the executors of `WorkerPool` as the threads of
   `WorkflowWorker`, with the client mutex delaying pings.
