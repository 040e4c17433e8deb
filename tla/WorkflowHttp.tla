---------------------------- MODULE WorkflowHttp ----------------------------
(***************************************************************************)
(* wf serve and the programs that call it: cmdServe's thread from the      *)
(* construction of the server to its exit, the signals that stop it, the   *)
(* requests httplib's threads handle, and WorkflowClients (wf's commands   *)
(* among them) whose calls the HttpTransport makes, one after another.     *)
(*                                                                         *)
(* A signal or a crash may come at any point, connections break, callers   *)
(* give up, and wf serve is started again on the same database.            *)
(***************************************************************************)
EXTENDS Orchestrator

CONSTANT Callers

VARIABLES
  main,      \* where cmdServe is, or "off"
  gServer,   \* g_server points at the server
  open,      \* svr_sock_ is not INVALID_SOCKET
  job,       \* what the server has of each caller's call, or None
  caller,
  seen,      \* what the call of each caller returned or threw
  answered,  \* history: the call ended with a response
  done       \* history: what the call asked for was done

serveVars == <<main, gServer, open>>
callVars == <<job, caller, seen, answered, done>>
httpVars == <<vars, serveVars, callVars>>

\* "leaving" and "failed" are the destruction of the server, the service and
\* the orchestrator, after start has returned and after bind has thrown.
MainStates == {"off", "built", "bound", "listening", "draining", "returned",
               "leaving", "failed"}

CallerStates == {"idle", "waiting", "ended"}

\* What a call throws, or the absence of an execution that get returns.
Statuses == {200, 400, 404, 409}
Seen == {"value", "absent", "invalid_argument", "runtime_error"}

Job == [phase : {"sent", "accepted"}]
         \cup [phase : {"handled"}, op : {"get", "other"}, status : Statuses]

ASSUME NoCallAssumption == None \notin Job \cup Seen

HttpTypeOK ==
  /\ TypeOK
  /\ main \in MainStates
  /\ gServer \in BOOLEAN
  /\ open \in BOOLEAN
  /\ job \in [Callers -> Job \cup {None}]
  /\ caller \in [Callers -> CallerStates]
  /\ seen \in [Callers -> Seen \cup {None}]
  /\ answered \in [Callers -> BOOLEAN]
  /\ done \in [Callers -> BOOLEAN]

HttpInit ==
  /\ Init
  /\ main = "off"
  /\ gServer = FALSE
  /\ open = FALSE
  /\ job = [c \in Callers |-> None]
  /\ caller = [c \in Callers |-> "idle"]
  /\ seen = [c \in Callers |-> None]
  /\ answered = [c \in Callers |-> FALSE]
  /\ done = [c \in Callers |-> FALSE]

-----------------------------------------------------------------------------
(* Requests, and what the service does with them.                          *)

\* A step's output names a next step, has none, or has one that is not a
\* string or empty, which StepOutputRoutingLogic takes for none.
Outputs == StepNames \cup {None, "unusable"}

NextStep(output) == IF output \in StepNames THEN output ELSE None

\* A request that is not valid has an empty name or identifier, a version, a
\* maxResults or a delay that is not positive, or a document that is refused.
Requests ==
  [op : {"validate", "list"}, valid : {TRUE}]
    \cup [op : {"register", "start", "get", "cancel", "poll", "keepAlive",
                "complete", "fail"}, valid : {FALSE}]
    \cup (UNION {[op : {"register"}, valid : {TRUE}, workflow : {w},
                  definition : Definitions[w]] : w \in Workflows})
    \cup [op : {"start"}, valid : {TRUE}, workflow : Workflows]
    \cup [op : {"poll"}, valid : {TRUE}, workflow : Workflows, worker : Workers]
    \cup [op : {"get", "cancel"}, valid : {TRUE}, execution : Executions]
    \cup [op : {"keepAlive", "fail"}, valid : {TRUE}, execution : Executions,
          step : StepNames, worker : Workers]
    \cup [op : {"complete"}, valid : {TRUE}, execution : Executions,
          step : StepNames, worker : Workers, output : Outputs]

\* The operation of the orchestrator a request comes to.  A poll that has
\* nothing to claim, and the reads, leave the tables alone.
Perform(r) ==
  CASE r.op \in {"validate", "list", "get"} -> UNCHANGED vars
    [] r.op = "register" -> RegisterWorkflowDefinition(r.workflow, r.definition)
    [] r.op = "start" ->
         \E e \in Executions, i \in Inputs : StartWorkflow(r.workflow, e, i)
    [] r.op = "cancel" -> CancelWorkflow(r.execution)
    [] r.op = "poll" ->
         \/ \E n \in 1..MaxBatch :
              PollAndClaimWorkflowSteps(r.workflow, r.worker, n)
         \/ Claimable(r.workflow, now) = {} /\ UNCHANGED vars
    [] r.op = "keepAlive" -> KeepAliveStep(r.execution, r.step, r.worker)
    [] r.op = "complete" ->
         IF NextStep(r.output) = None
         THEN CompleteWorkflow(r.execution, r.step, r.worker)
         ELSE \E i \in Inputs : CompleteStep(r.execution, r.step, r.worker,
                                             NextStep(r.output), i, None)
    [] r.op = "fail" -> FailStep(r.execution, r.step, r.worker)

\* What computing the lease of a step throws: its workflow no longer has it, it
\* has no expectedExecutionTime, or one that does not parse.
LeaseThrows(d, s) ==
  IF d.steps[s] = None THEN {"conflict"}
  ELSE IF d.steps[s].lease = None THEN {"conflict", "invalid"}
  ELSE {}

PollThrows(r) ==
  IF definitions[r.workflow] = None THEN {"not found"}
  ELSE LET w == r.workflow
           batches == {b \in SUBSET Claimable(w, now) :
                         \E n \in 1..MaxBatch : IsBatch(b, w, now, n)}
       IN  UNION {LeaseThrows(definitions[w], p[2][1]) : p \in UNION batches}

\* keepAliveStep, completeStep and failStep, after the checks they share.
ReportThrows(r) ==
  LET e == r.execution
      needed == IF r.op = "fail" THEN {r.step}
                ELSE {NextStep(r.output)} \ {None}
  IN  IF executions[e] = None THEN {"not found"}
      ELSE IF ~MayReport(e, r.step, r.worker, now) THEN {"conflict"}
      ELSE IF r.op = "keepAlive" THEN LeaseThrows(DefinitionOf(e), r.step)
      ELSE IF \E s \in needed : ~StepDefined(e, s) THEN {"conflict"}
      ELSE {}

StartThrows(r) ==
  IF definitions[r.workflow] = None THEN {"not found"}
  ELSE IF definitions[r.workflow].singleton /\ ~SingletonFree(r.workflow)
       THEN {"conflict"}
  ELSE {}

CancelThrows(r) ==
  IF executions[r.execution] = None THEN {"not found"}
  ELSE IF ~IsRunning(r.execution) THEN {"conflict"}
  ELSE {}

\* The exceptions a request may meet in the service now: invalid_argument, and
\* the runtime_errors whose message has "not found" in it and the others.  (A
\* poll may meet one and may succeed: the batch it asks for decides.)
Throws(r) ==
  IF ~r.valid THEN {"invalid"}
  ELSE CASE r.op = "poll" -> PollThrows(r)
         [] r.op = "start" -> StartThrows(r)
         [] r.op = "cancel" -> CancelThrows(r)
         [] r.op \in {"keepAlive", "complete", "fail"} -> ReportThrows(r)
         [] OTHER -> {}

\* get of an execution that is not there returns std::nullopt.
Absent(r) == r.valid /\ r.op = "get" /\ executions[r.execution] = None

-----------------------------------------------------------------------------
(* The two transports.                                                     *)

\* InProcessTransport: the service's exception, or its value.
InProcess(exception) ==
  IF exception = "invalid" THEN "invalid_argument" ELSE "runtime_error"

\* handleException.  An empty identifier in the path comes to no handler.
StatusOf(r, exception) ==
  IF ~r.valid /\ r.op \in {"get", "cancel"} THEN 404
  ELSE CASE exception = "invalid" -> 400
         [] exception = "not found" -> 404
         [] exception = "conflict" -> 409

\* The status of the response to a request that throws nothing.
StatusOfValue(r) == IF Absent(r) THEN 404 ELSE 200

KindOf(r) == IF r.op = "get" THEN "get" ELSE "other"

\* Mutant: checkResponse lets every response through that is not a 400.
OverHttp_Lenient(op, status) ==
  IF op = "get" /\ status = 404 THEN "absent"
  ELSE IF status = 400 THEN "invalid_argument"
  ELSE "value"

\* Mutant: the response to get is checked before its status is looked at.
OverHttp_CheckedFirst(op, status) ==
  IF status = 200 THEN "value"
  ELSE IF status = 400 THEN "invalid_argument"
  ELSE "runtime_error"

\* HttpTransport: checkResponse, and the 404 that get looks for.
OverHttp(op, status) ==
  IF op = "get" /\ status = 404 THEN "absent"
  ELSE CASE status = 200 -> "value"
         [] status = 400 -> "invalid_argument"
         [] status \in {404, 409} -> "runtime_error"

\* What the commands of the wf program make of it.
ExitStatus(what) == IF what = "value" THEN 0 ELSE 1

-----------------------------------------------------------------------------
(* The caller's side of a call.                                            *)

\* The connection is made once the socket listens, which it does from bind on.
Ask(c) ==
  /\ caller[c] = "idle"
  /\ caller' = [caller EXCEPT ![c] = "waiting"]
  /\ job' = [job EXCEPT ![c] = IF open THEN [phase |-> "sent"] ELSE None]
  /\ UNCHANGED <<vars, serveVars, seen, answered, done>>

\* The connection is refused or breaks, or the response takes too long.  What
\* the server has of the call may still be done.
NoResponse(c) ==
  /\ caller[c] = "waiting"
  /\ caller' = [caller EXCEPT ![c] = "ended"]
  /\ seen' = [seen EXCEPT ![c] = "runtime_error"]
  /\ UNCHANGED <<vars, serveVars, job, answered, done>>

\* The next call.  (Bound: not while the server has something of the last one.)
NextCall(c) ==
  /\ caller[c] = "ended"
  /\ job[c] = None
  /\ caller' = [caller EXCEPT ![c] = "idle"]
  /\ seen' = [seen EXCEPT ![c] = None]
  /\ answered' = [answered EXCEPT ![c] = FALSE]
  /\ done' = [done EXCEPT ![c] = FALSE]
  /\ UNCHANGED <<vars, serveVars, job>>

-----------------------------------------------------------------------------
(* The server's side: httplib's accept loop and its threads.               *)

Accept(c) ==
  /\ main = "listening"
  /\ open
  /\ job[c] # None
  /\ job[c].phase = "sent"
  /\ job' = [job EXCEPT ![c].phase = "accepted"]
  /\ UNCHANGED <<vars, serveVars, caller, seen, answered, done>>

\* A handler runs, to the end of its call of the service.  What the call asks
\* for is chosen here: nothing before depends on it.
Handle(c) ==
  /\ job[c] # None
  /\ job[c].phase = "accepted"
  /\ \E r \in Requests :
       \/ /\ r.valid
          /\ Perform(r)
          /\ job' = [job EXCEPT ![c] = [phase |-> "handled", op |-> KindOf(r),
                                        status |-> StatusOfValue(r)]]
          /\ done' = [done EXCEPT ![c] = ~Absent(r)]
       \/ \E exception \in Throws(r) :
            /\ job' = [job EXCEPT ![c] = [phase |-> "handled", op |-> KindOf(r),
                                          status |-> StatusOf(r, exception)]]
            /\ UNCHANGED <<vars, done>>
  /\ UNCHANGED <<serveVars, caller, seen, answered>>

\* A thread closes a connection on which no request has arrived when the
\* server stops.
CloseUnread(c) ==
  /\ job[c] # None
  /\ job[c].phase = "accepted"
  /\ ~open
  /\ job' = [job EXCEPT ![c] = None]
  /\ UNCHANGED <<vars, serveVars, caller, seen, answered, done>>

\* The response is written, and read if its caller still waits for it.
Respond(c) ==
  /\ job[c] # None
  /\ job[c].phase = "handled"
  /\ job' = [job EXCEPT ![c] = None]
  /\ IF caller[c] = "waiting"
     THEN /\ caller' = [caller EXCEPT ![c] = "ended"]
          /\ seen' = [seen EXCEPT ![c] = OverHttp(job[c].op, job[c].status)]
          /\ answered' = [answered EXCEPT ![c] = TRUE]
     ELSE UNCHANGED <<caller, seen, answered>>
  /\ UNCHANGED <<vars, serveVars, done>>

-----------------------------------------------------------------------------
(* cmdServe.                                                               *)

InServer(c) == job[c] # None /\ job[c].phase \in {"accepted", "handled"}

\* Mutant: they are left to their callers.
Unaccepted_Kept == job

\* The connections nobody has accepted are reset when the socket closes.
Unaccepted == [c \in Callers |-> IF InServer(c) THEN job[c] ELSE None]

GoTo(here, there) == main = here /\ main' = there

\* The server is constructed, and the signal handlers are installed.
Build ==
  /\ GoTo("off", "built")
  /\ gServer' = TRUE
  /\ UNCHANGED <<vars, open, callVars>>

BindSucceeds ==
  /\ GoTo("built", "bound")
  /\ open' = TRUE
  /\ UNCHANGED <<vars, gServer, callVars>>

\* bind throws past the line that clears g_server.
BindFails ==
  /\ GoTo("built", "failed")
  /\ UNCHANGED <<vars, gServer, open, callVars>>

Listen ==
  /\ GoTo("bound", "listening")
  /\ UNCHANGED <<vars, gServer, open, callVars>>

\* Mutant: closing the socket does not end an accept that waits for a call.
LeaveLoop_NotWoken ==
  /\ ~open
  /\ \E c \in Callers : job[c] # None /\ job[c].phase = "sent"
  /\ GoTo("listening", "draining")
  /\ UNCHANGED <<vars, gServer, open, callVars>>

\* The accept loop finds the socket closed, and shuts the task queue down.
LeaveLoop ==
  /\ ~open
  /\ GoTo("listening", "draining")
  /\ UNCHANGED <<vars, gServer, open, callVars>>

\* Mutant: the threads are not joined.
JoinThreads_Detached ==
  /\ GoTo("draining", "returned")
  /\ UNCHANGED <<vars, gServer, open, callVars>>

\* The threads are joined once they have emptied the queue; start returns.
JoinThreads ==
  /\ \A c \in Callers : ~InServer(c)
  /\ GoTo("draining", "returned")
  /\ UNCHANGED <<vars, gServer, open, callVars>>

ClearServer ==
  /\ GoTo("returned", "leaving")
  /\ gServer' = FALSE
  /\ UNCHANGED <<vars, open, callVars>>

\* The destructors have run, and cmdServe returns.
ExitServe ==
  /\ main \in {"leaving", "failed"}
  /\ main' = "off"
  /\ gServer' = FALSE
  /\ UNCHANGED <<vars, open, callVars>>

\* The process dies, and all its connections with it.
Die ==
  /\ main' = "off"
  /\ gServer' = FALSE
  /\ open' = FALSE
  /\ job' = [c \in Callers |-> None]
  /\ UNCHANGED <<vars, caller, seen, answered, done>>

Crash == main # "off" /\ Die

\* handleSignal.  stop closes the socket while the server runs, and asserts
\* that nobody has closed it before: a second signal while the first one's
\* shutdown waits for the threads aborts the process.  After bind has thrown,
\* it uses a server that is gone.  At any other place the signal is lost.
Signal ==
  /\ gServer
  /\ \/ /\ main = "listening"
        /\ open
        /\ open' = FALSE
        /\ job' = Unaccepted
        /\ UNCHANGED <<vars, main, gServer, caller, seen, answered, done>>
     \/ main \in {"listening", "draining"} /\ ~open /\ Die
     \/ main = "failed" /\ (Die \/ UNCHANGED httpVars)

-----------------------------------------------------------------------------
(* What goes on beside: the sweep thread of the service, and the clock.    *)

Beside ==
  /\ Tick \/ (main # "off" /\ SweepExpiredLeases)
  /\ UNCHANGED <<serveVars, callVars>>

ServeStep ==
  Listen \/ LeaveLoop \/ JoinThreads \/ ClearServer \/ ExitServe

ServerStep(c) == Accept(c) \/ Handle(c) \/ Respond(c)

CallStep(c) ==
  Ask(c) \/ NoResponse(c) \/ NextCall(c) \/ ServerStep(c) \/ CloseUnread(c)

HttpNext ==
  \/ Beside
  \/ Build \/ BindSucceeds \/ BindFails \/ ServeStep
  \/ Signal \/ Crash
  \/ \E c \in Callers : CallStep(c)

\* The threads of the server and of wf serve run, transactions commit, and a
\* caller learns of a connection that is gone.  No timeout is relied on.
HttpSpec ==
  /\ HttpInit
  /\ [][HttpNext]_httpVars
  /\ WF_httpVars(ServeStep)
  /\ \A c \in Callers :
       /\ WF_httpVars(ServerStep(c))
       /\ WF_httpVars(job[c] = None /\ NoResponse(c))

-----------------------------------------------------------------------------
(* Properties.                                                             *)

\* A caller is told the same by either transport: the value, the absence, or
\* an exception of the same class, although HTTP passes through a status that
\* is chosen from the text of the exception and turned into another one.  The
\* exception is get or cancel with an empty identifier, which HTTP cannot
\* carry in a path: they find nothing instead of being refused.
TransportsAgree ==
  \A r \in Requests :
    (r.valid \/ r.op \notin {"get", "cancel"}) =>
      /\ \A exception \in Throws(r) :
           OverHttp(KindOf(r), StatusOf(r, exception)) = InProcess(exception)
      /\ OverHttp(KindOf(r), StatusOfValue(r)) =
           IF Absent(r) THEN "absent" ELSE "value"

\* A command of wf that exits with 0 has done what it was asked to, and one
\* that exits with 1 has not, unless it had no response: then its request may
\* have been done, or may be done yet, whatever became of the server.
ExitStatusTruthful ==
  \A c \in Callers : caller[c] = "ended" =>
    /\ ExitStatus(seen[c]) = 0 => done[c]
    /\ ExitStatus(seen[c]) = 1 /\ answered[c] => ~done[c]

\* While a request is being handled, the server and the service it refers to
\* exist; and a signal finds the server while g_server points at it, but for
\* the destruction after a bind that failed.
NothingUsedOnceDestroyed ==
  /\ \A c \in Callers : InServer(c) => main \in {"listening", "draining"}
  /\ gServer => main \notin {"off", "leaving"}

\* A signal that finds the server listening ends wf serve: it waits for the
\* requests being handled and for no other.
SignalEndsServe == (main = "listening" /\ ~open) ~> (main = "off")

\* Every call returns or throws, whether the server answers, stops with the
\* call unaccepted, unread or half done, crashes, or was never there.
EveryCallEnds ==
  \A c \in Callers : (caller[c] = "waiting") ~> (caller[c] = "ended")

=============================================================================
