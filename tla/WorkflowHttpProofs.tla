------------------------- MODULE WorkflowHttpProofs -------------------------
(* Machine-checked theorems about WorkflowHttp, for any number of callers.  *)
EXTENDS WorkflowHttp, OrchestratorProofs

-----------------------------------------------------------------------------
(* wf serve does to the tables what the orchestrator's operations do.       *)

\* What a request that is valid names.
LEMMA RequestParts ==
  ASSUME NEW r \in Requests, r.valid
  PROVE  \/ r.op \in {"validate", "list"}
         \/ /\ r.op = "register"
            /\ r.workflow \in Workflows
            /\ r.definition \in Definitions[r.workflow]
         \/ r.op = "start" /\ r.workflow \in Workflows
         \/ r.op = "poll" /\ r.workflow \in Workflows /\ r.worker \in Workers
         \/ r.op \in {"get", "cancel"} /\ r.execution \in Executions
         \/ /\ r.op \in {"keepAlive", "fail"}
            /\ r.execution \in Executions /\ r.step \in StepNames
            /\ r.worker \in Workers
         \/ /\ r.op = "complete"
            /\ r.execution \in Executions /\ r.step \in StepNames
            /\ r.worker \in Workers /\ r.output \in Outputs
<1> DEFINE R1 == [op : {"validate", "list"}, valid : {TRUE}]
           R2 == [op : {"register", "start", "get", "cancel", "poll",
                        "keepAlive", "complete", "fail"}, valid : {FALSE}]
           R3 == UNION {[op : {"register"}, valid : {TRUE}, workflow : {w},
                         definition : Definitions[w]] : w \in Workflows}
           R4 == [op : {"start"}, valid : {TRUE}, workflow : Workflows]
           R5 == [op : {"poll"}, valid : {TRUE}, workflow : Workflows,
                  worker : Workers]
           R6 == [op : {"get", "cancel"}, valid : {TRUE},
                  execution : Executions]
           R7 == [op : {"keepAlive", "fail"}, valid : {TRUE},
                  execution : Executions, step : StepNames, worker : Workers]
           R8 == [op : {"complete"}, valid : {TRUE}, execution : Executions,
                  step : StepNames, worker : Workers, output : Outputs]
<1>1. CASE r \in R1 \/ r \in R2
  BY <1>1
<1>2. CASE r \in R3
  <2>1. PICK w \in Workflows :
          r \in [op : {"register"}, valid : {TRUE}, workflow : {w},
                definition : Definitions[w]]
    BY <1>2
  <2> QED BY <2>1
<1>3. CASE r \in R4
  BY <1>3
<1>4. CASE r \in R5
  BY <1>4
<1>5. CASE r \in R6
  BY <1>5
<1>6. CASE r \in R7
  BY <1>6
<1>7. CASE r \in R8
  BY <1>7
<1>8. Requests = R1 \cup R2 \cup R3 \cup R4 \cup R5 \cup R6 \cup R7 \cup R8
  BY Zenon DEF Requests
<1> HIDE DEF R1, R2, R3, R4, R5, R6, R7, R8
<1>9. \/ r \in R1 \/ r \in R2 \/ r \in R3 \/ r \in R4 \/ r \in R5 \/ r \in R6
      \/ r \in R7 \/ r \in R8
  BY <1>8
<1> QED BY <1>1, <1>2, <1>3, <1>4, <1>5, <1>6, <1>7, <1>9

LEMMA PerformMaps ==
  ASSUME NEW r \in Requests, r.valid, Perform(r)
  PROVE  [Next]_vars
<1>1. CASE r.op \in {"validate", "list", "get"}
  BY <1>1 DEF Perform
<1>2. CASE r.op = "register"
  BY <1>2, RequestParts DEF Perform, Next, Register
<1>3. CASE r.op = "start"
  BY <1>3, RequestParts DEF Perform, Next, Start
<1>4. CASE r.op = "cancel"
  BY <1>4, RequestParts DEF Perform, Next
<1>5. CASE r.op = "poll"
  BY <1>5, RequestParts DEF Perform, Next, Poll
<1>6. CASE r.op \in {"keepAlive", "fail"}
  <2>1. Report(r.execution, r.worker)
    BY <1>6, RequestParts DEF Perform, Report
  <2> QED BY <1>6, <2>1, RequestParts DEF Next
<1>7. CASE r.op = "complete"
  <2>1. Report(r.execution, r.worker)
    <3>1. CASE NextStep(r.output) = None
      BY <1>7, <3>1, RequestParts DEF Perform, Report
    <3>2. CASE NextStep(r.output) # None
      <4>1. NextStep(r.output) \in StepNames
        BY <3>2 DEF NextStep
      <4> QED BY <1>7, <3>2, <4>1, RequestParts DEF Perform, Report
    <3> QED BY <3>1, <3>2
  <2> QED BY <1>7, <2>1, RequestParts DEF Next
<1> QED BY <1>1, <1>2, <1>3, <1>4, <1>5, <1>6, <1>7, RequestParts

LEMMA HttpStepMaps == [HttpNext]_httpVars => [Next]_vars
<1>1. ASSUME NEW c \in Callers, CallStep(c) PROVE [Next]_vars
  <2>1. CASE Handle(c)
    BY <2>1, PerformMaps DEF Handle
  <2>2. CASE ~Handle(c)
    BY <1>1, <2>2 DEF CallStep, ServerStep, Ask, NoResponse, NextCall, Accept,
                      CloseUnread, Respond
  <2> QED BY <2>1, <2>2
<1>2. CASE Beside
  BY <1>2 DEF Beside, Next
<1>3. CASE Build \/ BindSucceeds \/ BindFails \/ ServeStep
  BY <1>3 DEF Build, BindSucceeds, BindFails, ServeStep, Listen, LeaveLoop,
              JoinThreads, ClearServer, ExitServe
<1>4. CASE Signal \/ Crash
  BY <1>4 DEF Signal, Crash, Die, httpVars
<1>5. CASE UNCHANGED httpVars
  BY <1>5 DEF httpVars
<1> QED BY <1>1, <1>2, <1>3, <1>4, <1>5 DEF HttpNext

\* Whatever callers, signals and crashes do, wf serve changes the tables only
\* by operations of the orchestrator: what is proved of them holds here.
THEOREM HttpImplementsOrchestrator == HttpSpec => Spec
<1>1. HttpInit => Init
  BY DEF HttpInit
<1> QED BY <1>1, HttpStepMaps, PTL DEF HttpSpec, Spec

\* So a server that is stopped or crashes between the calls of its clients, and is
\* started again on the same tables, finds them in agreement.
THEOREM HttpKeepsTables ==
  HttpSpec => []OneActiveStep /\ []RetryChain /\ TerminalFrozen
                /\ LiveLeaseRespected
BY HttpImplementsOrchestrator, ExecutionAndStepsAgree, RetriesKeepTheirInput,
   EndedExecutionsFrozen, LiveLeasesRespected, PTL

-----------------------------------------------------------------------------
(* The two transports.                                                      *)

\* The exceptions there are.
LEMMA ThrowsFacts ==
  ASSUME NEW r \in Requests
  PROVE  /\ Throws(r) \subseteq {"invalid", "not found", "conflict"}
         /\ ~r.valid => Throws(r) = {"invalid"}
         /\ r.valid /\ r.op = "get" => Throws(r) = {}
<1>1. \A d, s : LeaseThrows(d, s) \subseteq {"invalid", "not found", "conflict"}
  BY DEF LeaseThrows
<1>2. PollThrows(r) \subseteq {"invalid", "not found", "conflict"}
  <2> DEFINE w == r.workflow
             offered == UNION {b \in SUBSET Claimable(w, now) :
                                 \E n \in 1..MaxBatch : IsBatch(b, w, now, n)}
  <2>1. PollThrows(r) =
          IF definitions[w] = None THEN {"not found"}
          ELSE UNION {LeaseThrows(definitions[w], p[2][1]) : p \in offered}
    BY DEF PollThrows
  <2> HIDE DEF offered
  <2>2. ASSUME NEW x \in UNION {LeaseThrows(definitions[w], p[2][1]) :
                                  p \in offered}
        PROVE  x \in {"invalid", "not found", "conflict"}
    <3>1. PICK p \in offered : x \in LeaseThrows(definitions[w], p[2][1])
      BY <2>2
    <3> QED BY <1>1, <3>1
  <2> QED BY <2>1, <2>2
<1>3. ReportThrows(r) \subseteq {"invalid", "not found", "conflict"}
  BY <1>1 DEF ReportThrows
<1>4. /\ StartThrows(r) \subseteq {"not found", "conflict"}
      /\ CancelThrows(r) \subseteq {"not found", "conflict"}
  BY DEF StartThrows, CancelThrows
<1>5. CASE ~r.valid
  BY <1>5 DEF Throws
<1>6. CASE r.valid /\ r.op = "poll"
  BY <1>2, <1>6 DEF Throws
<1>7. CASE r.valid /\ r.op \in {"start", "cancel"}
  BY <1>4, <1>7 DEF Throws
<1>8. CASE r.valid /\ r.op \in {"keepAlive", "complete", "fail"}
  BY <1>3, <1>8 DEF Throws
<1>9. CASE r.valid /\ r.op \notin {"poll", "start", "cancel", "keepAlive",
                                   "complete", "fail"}
  BY <1>9 DEF Throws
<1> QED BY <1>5, <1>6, <1>7, <1>8, <1>9

\* What either response is, and what HttpTransport makes of it.
LEMMA ResponseFacts ==
  ASSUME NEW r \in Requests
  PROVE  /\ KindOf(r) \in {"get", "other"}
         /\ StatusOfValue(r) \in Statuses
         /\ OverHttp(KindOf(r), StatusOfValue(r)) =
              IF Absent(r) THEN "absent" ELSE "value"
         /\ \A exception \in Throws(r) :
              /\ StatusOf(r, exception) \in Statuses
              /\ OverHttp(KindOf(r), StatusOf(r, exception)) \in Seen \ {"value"}
              /\ r.valid \/ r.op \notin {"get", "cancel"} =>
                   OverHttp(KindOf(r), StatusOf(r, exception))
                     = InProcess(exception)
<1>1. KindOf(r) \in {"get", "other"} /\ StatusOfValue(r) \in Statuses
  BY DEF KindOf, StatusOfValue, Statuses
<1>2. OverHttp(KindOf(r), StatusOfValue(r)) =
        IF Absent(r) THEN "absent" ELSE "value"
  BY DEF OverHttp, KindOf, StatusOfValue, Absent
<1>3. ASSUME NEW exception \in Throws(r)
      PROVE  /\ StatusOf(r, exception) \in Statuses
             /\ OverHttp(KindOf(r), StatusOf(r, exception)) \in Seen \ {"value"}
             /\ r.valid \/ r.op \notin {"get", "cancel"} =>
                  OverHttp(KindOf(r), StatusOf(r, exception))
                    = InProcess(exception)
  <2>1. CASE ~r.valid /\ r.op \in {"get", "cancel"}
    <3>1. StatusOf(r, exception) = 404
      BY <2>1 DEF StatusOf
    <3> QED BY <2>1, <3>1 DEF OverHttp, Seen, Statuses
  <2>2. CASE ~r.valid /\ r.op \notin {"get", "cancel"}
    <3>1. exception = "invalid"
      BY <2>2, ThrowsFacts
    <3>2. StatusOf(r, exception) = 400
      BY <2>2, <3>1 DEF StatusOf
    <3> QED BY <3>1, <3>2 DEF OverHttp, Seen, Statuses, InProcess
  <2>3. CASE r.valid
    <3>1. KindOf(r) = "other"
      BY <2>3, ThrowsFacts DEF KindOf
    <3>2. exception \in {"invalid", "not found", "conflict"}
      BY ThrowsFacts
    <3>3. StatusOf(r, exception) = IF exception = "invalid" THEN 400
                                   ELSE IF exception = "not found" THEN 404
                                   ELSE 409
      BY <2>3, <3>2 DEF StatusOf
    <3>4. CASE exception = "invalid"
      <4>1. StatusOf(r, exception) = 400
        BY <3>3, <3>4
      <4> QED BY <3>1, <3>4, <4>1 DEF OverHttp, Seen, Statuses, InProcess
    <3>5. CASE exception # "invalid"
      <4>1. StatusOf(r, exception) \in {404, 409}
        BY <3>3, <3>5
      <4> QED BY <3>1, <3>5, <4>1 DEF OverHttp, Seen, Statuses, InProcess
    <3> QED BY <3>4, <3>5
  <2> QED BY <2>1, <2>2, <2>3
<1> QED BY <1>1, <1>2, <1>3

\* In any state, and so whatever races with the request, a caller learns the
\* same from either transport.
THEOREM TransportsTellTheSame == HttpSpec => []TransportsAgree
<1>1. TransportsAgree
  BY ResponseFacts DEF TransportsAgree
<1> QED BY <1>1, PTL

-----------------------------------------------------------------------------
(* The types.                                                               *)

CallTypes ==
  /\ main \in MainStates
  /\ gServer \in BOOLEAN
  /\ open \in BOOLEAN
  /\ job \in [Callers -> Job \cup {None}]
  /\ caller \in [Callers -> CallerStates]
  /\ seen \in [Callers -> Seen \cup {None}]
  /\ answered \in [Callers -> BOOLEAN]
  /\ done \in [Callers -> BOOLEAN]

LEMMA JobFacts ==
  /\ None \notin Job
  /\ [phase |-> "sent"] \in Job
  /\ \A j \in Job : /\ j.phase \in {"sent", "accepted", "handled"}
                    /\ j.phase = "sent" =>
                         [j EXCEPT !.phase = "accepted"] = [phase |-> "accepted"]
                    /\ j.phase = "handled" =>
                         j.op \in {"get", "other"} /\ j.status \in Statuses
  /\ [phase |-> "accepted"] \in Job
  /\ \A o \in {"get", "other"}, n \in Statuses :
       [phase |-> "handled", op |-> o, status |-> n] \in Job
BY NoCallAssumption DEF Job

LEMMA OverHttpType ==
  ASSUME NEW o \in {"get", "other"}, NEW n \in Statuses
  PROVE  OverHttp(o, n) \in Seen
<1>1. n = 200 \/ n = 400 \/ n = 404 \/ n = 409
  BY DEF Statuses
<1>2. CASE n = 200
  BY <1>2 DEF OverHttp, Seen
<1>3. CASE n = 400
  BY <1>3 DEF OverHttp, Seen
<1>4. CASE n \in {404, 409}
  BY <1>4 DEF OverHttp, Seen
<1> QED BY <1>1, <1>2, <1>3, <1>4

\* What handling a request leaves of the call.
LEMMA Handled ==
  ASSUME CallTypes, NEW c \in Callers, Handle(c)
  PROVE  /\ job[c] # None /\ job[c].phase = "accepted"
         /\ \E o \in {"get", "other"}, n \in Statuses :
              /\ job' = [job EXCEPT ![c] =
                           [phase |-> "handled", op |-> o, status |-> n]]
              /\ \/ /\ done'[c] <=> OverHttp(o, n) = "value"
                    /\ done' \in [Callers -> BOOLEAN]
                    /\ \A x \in Callers \ {c} : done'[x] = done[x]
                 \/ done' = done /\ OverHttp(o, n) # "value"
         /\ UNCHANGED <<serveVars, caller, seen, answered>>
<1>1. job[c] # None /\ job[c].phase = "accepted"
  BY DEF Handle
<1>2. UNCHANGED <<serveVars, caller, seen, answered>>
  BY DEF Handle
<1>3. PICK r \in Requests :
       \/ /\ job' = [job EXCEPT ![c] = [phase |-> "handled", op |-> KindOf(r),
                                        status |-> StatusOfValue(r)]]
          /\ done' = [done EXCEPT ![c] = ~Absent(r)]
       \/ \E exception \in Throws(r) :
            /\ job' = [job EXCEPT ![c] = [phase |-> "handled", op |-> KindOf(r),
                                          status |-> StatusOf(r, exception)]]
            /\ UNCHANGED done
  BY DEF Handle
<1>4. CASE /\ job' = [job EXCEPT ![c] = [phase |-> "handled", op |-> KindOf(r),
                                         status |-> StatusOfValue(r)]]
           /\ done' = [done EXCEPT ![c] = ~Absent(r)]
  <2>1. /\ KindOf(r) \in {"get", "other"} /\ StatusOfValue(r) \in Statuses
        /\ OverHttp(KindOf(r), StatusOfValue(r)) = "value" <=> ~Absent(r)
    BY ResponseFacts
  <2>2. /\ done'[c] <=> ~Absent(r)
        /\ done' \in [Callers -> BOOLEAN]
        /\ \A x \in Callers \ {c} : done'[x] = done[x]
    BY <1>4 DEF CallTypes, Absent
  <2> QED BY <1>1, <1>2, <1>4, <2>1, <2>2
<1>5. ASSUME NEW exception \in Throws(r),
             job' = [job EXCEPT ![c] = [phase |-> "handled", op |-> KindOf(r),
                                        status |-> StatusOf(r, exception)]],
             UNCHANGED done
      PROVE  \E o \in {"get", "other"}, n \in Statuses :
              /\ job' = [job EXCEPT ![c] =
                           [phase |-> "handled", op |-> o, status |-> n]]
              /\ done' = done /\ OverHttp(o, n) # "value"
  BY <1>5, ResponseFacts
<1> QED BY <1>1, <1>2, <1>3, <1>4, <1>5

LEMMA CallTypesStep ==
  ASSUME CallTypes, [HttpNext]_httpVars PROVE CallTypes'
<1> USE DEF CallTypes, MainStates, CallerStates, serveVars, callVars
<1>1. CASE Beside \/ UNCHANGED httpVars
  BY <1>1 DEF Beside, httpVars
<1>2. CASE Build \/ BindSucceeds \/ BindFails \/ ServeStep
  BY <1>2 DEF Build, BindSucceeds, BindFails, ServeStep, Listen, LeaveLoop,
              JoinThreads, ClearServer, ExitServe, GoTo
<1>3. CASE Signal \/ Crash
  BY <1>3 DEF Signal, Crash, Die, Unaccepted, InServer, httpVars
<1>4. ASSUME NEW c \in Callers, CallStep(c) PROVE CallTypes'
  <2>1. CASE Ask(c)
    BY <2>1, JobFacts DEF Ask
  <2>2. CASE NoResponse(c) \/ NextCall(c) \/ CloseUnread(c)
    BY <2>2 DEF NoResponse, NextCall, CloseUnread, Seen
  <2>3. CASE Accept(c)
    <3>1. [job[c] EXCEPT !.phase = "accepted"] \in Job
      BY <2>3, JobFacts DEF Accept
    <3> QED BY <2>3, <3>1 DEF Accept
  <2>4. CASE Handle(c)
    <3>1. /\ UNCHANGED <<serveVars, caller, seen, answered>>
          /\ \E j \in Job : job' = [job EXCEPT ![c] = j]
          /\ done' \in [Callers -> BOOLEAN]
      BY <2>4, Handled, JobFacts
    <3> QED BY <3>1
  <2>5. CASE Respond(c)
    <3>1. OverHttp(job[c].op, job[c].status) \in Seen
      BY <2>5, JobFacts, OverHttpType DEF Respond
    <3> QED BY <2>5, <3>1 DEF Respond
  <2> QED BY <1>4, <2>1, <2>2, <2>3, <2>4, <2>5 DEF CallStep, ServerStep
<1> QED BY <1>1, <1>2, <1>3, <1>4 DEF HttpNext

LEMMA CallTypesInvariant == HttpSpec => []CallTypes
<1>1. HttpInit => CallTypes
  BY DEF HttpInit, CallTypes, MainStates, CallerStates
<1> QED BY <1>1, CallTypesStep, PTL DEF HttpSpec

\* Tables, calls and the server's own state keep their types.
THEOREM HttpTypeCorrect == HttpSpec => []HttpTypeOK
<1>1. TypeOK /\ CallTypes => HttpTypeOK
  BY DEF CallTypes, HttpTypeOK
<1> QED BY <1>1, HttpImplementsOrchestrator, TypeCorrect, CallTypesInvariant, PTL

-----------------------------------------------------------------------------
(* What a caller learns.  The invariant adds where a call is to what is      *)
(* known of it: nothing is done before it is handled, and what was handled   *)
(* answers with what was done.                                               *)

CallTold(c) ==
  /\ caller[c] = "idle" => job[c] = None /\ ~done[c]
  /\ caller[c] # "ended" => ~answered[c]
  /\ job[c] # None =>
       /\ ~answered[c]
       /\ IF job[c].phase = "handled"
          THEN done[c] <=> OverHttp(job[c].op, job[c].status) = "value"
          ELSE ~done[c]
  /\ caller[c] = "ended" =>
       IF answered[c] THEN done[c] <=> seen[c] = "value"
                      ELSE seen[c] = "runtime_error"

CallsTold == \A c \in Callers : CallTold(c)

LEMMA CallsToldStep ==
  ASSUME CallTypes, CallsTold, [HttpNext]_httpVars PROVE CallsTold'
<1> USE DEF CallTypes, CallsTold, serveVars, callVars
<1>1. CASE UNCHANGED callVars
  BY <1>1 DEF CallTold
<1>2. ASSUME UNCHANGED <<caller, seen, answered, done>>,
             \A c \in Callers : job'[c] = job[c] \/ job'[c] = None
      PROVE  CallsTold'
  BY <1>2 DEF CallTold
<1>3. CASE Signal \/ Crash
  BY <1>1, <1>2, <1>3 DEF Signal, Crash, Die, Unaccepted, httpVars
<1>4. ASSUME NEW c \in Callers, CallStep(c) PROVE CallsTold'
  <2>0. ASSUME CallTold(c)', NEW x \in Callers \ {c},
               job'[x] = job[x], caller'[x] = caller[x], seen'[x] = seen[x],
               answered'[x] = answered[x], done'[x] = done[x]
        PROVE  CallTold(x)'
    BY <2>0 DEF CallTold
  <2>1. \A x \in Callers \ {c} :
          /\ job'[x] = job[x] /\ caller'[x] = caller[x] /\ seen'[x] = seen[x]
          /\ answered'[x] = answered[x] /\ done'[x] = done[x]
    <3>1. CASE Handle(c)
      BY <3>1, Handled
    <3>2. CASE ~Handle(c)
      BY <1>4, <3>2 DEF CallStep, ServerStep, Ask, NoResponse, NextCall, Accept,
                        CloseUnread, Respond
    <3> QED BY <3>1, <3>2
  <2>2. CallTold(c)'
    <3>1. CallTold(c)
      OBVIOUS
    <3>2. CASE Ask(c)
      <4>1. job'[c] = None \/ (job'[c] = [phase |-> "sent"] /\ ~done'[c])
        BY <3>1, <3>2 DEF Ask, CallTold
      <4> QED BY <3>1, <3>2, <4>1 DEF Ask, CallTold
    <3>3. CASE NoResponse(c) \/ NextCall(c) \/ CloseUnread(c)
      BY <3>1, <3>3 DEF NoResponse, NextCall, CloseUnread, CallTold
    <3>4. CASE Accept(c)
      <4>1. job'[c] = [phase |-> "accepted"] /\ job[c].phase = "sent"
        BY <3>4, JobFacts DEF Accept
      <4> QED BY <3>1, <3>4, <4>1 DEF Accept, CallTold
    <3>5. CASE Handle(c)
      <4>1. PICK o \in {"get", "other"}, n \in Statuses :
              /\ job'[c] = [phase |-> "handled", op |-> o, status |-> n]
              /\ \/ done'[c] <=> OverHttp(o, n) = "value"
                 \/ done' = done /\ OverHttp(o, n) # "value"
        BY <3>5, Handled
      <4>2. /\ job[c] # None /\ job[c].phase = "accepted"
            /\ UNCHANGED <<caller, seen, answered>>
        BY <3>5, Handled
      <4>3. ~done[c] /\ ~answered[c] /\ caller[c] # "idle"
        BY <3>1, <4>2 DEF CallTold
      <4>4. done'[c] <=> OverHttp(job'[c].op, job'[c].status) = "value"
        BY <4>1, <4>3
      <4> QED BY <3>1, <4>1, <4>2, <4>3, <4>4 DEF CallTold
    <3>6. CASE Respond(c)
      <4>1. done[c] <=> OverHttp(job[c].op, job[c].status) = "value"
        BY <3>1, <3>6 DEF Respond, CallTold
      <4> QED BY <3>1, <3>6, <4>1 DEF Respond, CallTold
    <3> QED BY <1>4, <3>2, <3>3, <3>4, <3>5, <3>6 DEF CallStep, ServerStep
  <2> QED BY <2>0, <2>1, <2>2
<1>5. CASE Beside \/ Build \/ BindSucceeds \/ BindFails \/ ServeStep
  BY <1>1, <1>5 DEF Beside, Build, BindSucceeds, BindFails, ServeStep, Listen,
              LeaveLoop, JoinThreads, ClearServer, ExitServe
<1> QED BY <1>1, <1>3, <1>4, <1>5 DEF HttpNext, httpVars

\* A command of wf exits with 0 only when what it asked for was done, and with
\* 1 after a response only when it was not, whatever wf serve went through.
THEOREM ExitStatusesAreTrue == HttpSpec => []ExitStatusTruthful
<1>1. HttpInit => CallsTold
  BY DEF HttpInit, CallsTold, CallTold
<1>2. CallsTold => ExitStatusTruthful
  BY DEF CallsTold, CallTold, ExitStatusTruthful, ExitStatus
<1> QED BY <1>1, <1>2, CallsToldStep, CallTypesInvariant, PTL DEF HttpSpec

-----------------------------------------------------------------------------
(* What is used exists.  The invariant adds that the socket is open only     *)
(* from bind until a signal or an exit.                                      *)

ServerInv ==
  /\ \A c \in Callers : InServer(c) => main \in {"listening", "draining"}
  /\ gServer => main \notin {"off", "leaving"}
  /\ open => main \in {"bound", "listening"}

LEMMA ServerStepKeeps ==
  ASSUME CallTypes, ServerInv, [HttpNext]_httpVars PROVE ServerInv'
<1> USE DEF CallTypes, ServerInv, serveVars, callVars
<1>1. CASE Beside \/ UNCHANGED httpVars
  BY <1>1 DEF Beside, httpVars, InServer
<1>2. CASE Build \/ BindSucceeds \/ BindFails
  BY <1>2 DEF Build, BindSucceeds, BindFails, GoTo, InServer
<1>3. CASE ServeStep
  BY <1>3 DEF ServeStep, Listen, LeaveLoop, JoinThreads, ClearServer, ExitServe,
              GoTo, InServer
<1>4. CASE Signal \/ Crash
  BY <1>4 DEF Signal, Crash, Die, Unaccepted, InServer, httpVars
<1>5. ASSUME NEW c \in Callers, CallStep(c) PROVE ServerInv'
  <2>1. UNCHANGED serveVars
    <3>1. CASE Handle(c)
      BY <3>1 DEF Handle
    <3> QED BY <1>5, <3>1 DEF CallStep, ServerStep, Ask, NoResponse, NextCall,
                              Accept, CloseUnread, Respond
  <2>2. \A x \in Callers \ {c} : job'[x] = job[x]
    <3>1. CASE Handle(c)
      BY <3>1, Handled
    <3> QED BY <1>5, <3>1 DEF CallStep, ServerStep, Ask, NoResponse, NextCall,
                              Accept, CloseUnread, Respond
  <2>3. InServer(c)' => InServer(c) \/ main = "listening"
    <3>1. CASE Handle(c)
      BY <3>1, Handled DEF InServer
    <3>2. CASE Ask(c)
      BY <3>2 DEF Ask, InServer
    <3>3. CASE NoResponse(c) \/ NextCall(c) \/ Accept(c) \/ CloseUnread(c)
                 \/ Respond(c)
      BY <3>3 DEF NoResponse, NextCall, Accept, CloseUnread, Respond, InServer
    <3> QED BY <1>5, <3>1, <3>2, <3>3 DEF CallStep, ServerStep
  <2> QED BY <2>1, <2>2, <2>3 DEF InServer
<1> QED BY <1>1, <1>2, <1>3, <1>4, <1>5 DEF HttpNext

\* No thread of the server handles a request once the server or its service is
\* destroyed, and a signal finds a server that exists, the destruction after a
\* bind that failed excepted.
THEOREM ServerOutlivesItsRequests == HttpSpec => []NothingUsedOnceDestroyed
<1>1. HttpInit => ServerInv
  BY DEF HttpInit, ServerInv, InServer
<1>2. ServerInv => NothingUsedOnceDestroyed
  BY DEF ServerInv, NothingUsedOnceDestroyed
<1> QED BY <1>1, <1>2, ServerStepKeeps, CallTypesInvariant, PTL DEF HttpSpec

=============================================================================
