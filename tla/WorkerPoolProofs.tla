--------------------------- MODULE WorkerPoolProofs ---------------------------
(* Machine-checked theorems about WorkerPool, for any number of pollers,   *)
(* executors, steps and starts.                                            *)
EXTENDS WorkerPool, FiniteSetTheorems, SequenceTheorems, TLAPS

-----------------------------------------------------------------------------
(* Types that do not depend on how much is in the queue.                   *)

\* TypeOK without its bounds on carried, idleExecutors and toRequest, which
\* hold because slots are conserved and steps are queued once.
Shape ==
  /\ owner \in {"stopped", "running", "notify", "joinPollers", "joinExecutors"}
  /\ starts \in 0..MaxStarts
  /\ carried \in Nat
  /\ stopping \in BOOLEAN
  /\ idleExecutors \in Nat
  /\ workQueue \in Seq(StepIds)
  /\ poller \in [Pollers -> PollerStates]
  /\ todo \in [Pollers -> SUBSET UNION {DefinitionsOf[p] : p \in Pollers}]
  /\ \A p \in Pollers : todo[p] \subseteq DefinitionsOf[p]
  /\ foundWork \in [Pollers -> BOOLEAN]
  /\ toRequest \in [Pollers -> Nat]
  /\ response \in [Pollers -> Seq(StepIds)]
  /\ executor \in [Executors -> ExecutorStates]
  /\ job \in [Executors -> StepIds \cup {None}]
  /\ keepAlive \in [Executors -> {"none", "waiting", "pinging", "calling"}]
  /\ clientMutex \in Threads \cup {KeepAlive(x) : x \in Executors} \cup {None}
  /\ handedOut \in 0..MaxSteps
  /\ reported \subseteq StepIds

\* A poller holds slots and an answer only between its reservation and its
\* return to the cycle, and never more steps than slots.
PollersHold ==
  \A p \in Pollers :
    /\ poller[p] \notin {"poll", "calling", "push", "giveBack"} =>
         toRequest[p] = 0
    /\ poller[p] # "push" => response[p] = <<>>
    /\ Len(response[p]) <= toRequest[p]

\* An executor has a step exactly while it is busy, and a KeepAliveThread only
\* until it joins it.
ExecutorsHold ==
  \A x \in Executors :
    /\ (job[x] # None) <=> (x \in Busy)
    /\ keepAlive[x] # "none" => executor[x] \in {"handling", "joining"}

\* stop joins the pollers, then the executors.
Joined ==
  /\ owner \in {"joinExecutors", "stopped"} =>
       \A p \in Pollers : poller[p] = "off"
  /\ owner = "stopped" => \A x \in Executors : executor[x] = "off"

ThreadsInv == Shape /\ PollersHold /\ ExecutorsHold /\ Joined

\* The smaller of two numbers.
LEMMA MinOfTwo ==
  ASSUME NEW a \in Int, NEW b \in Int
  PROVE  /\ Min({a, b}) \in {a, b}
         /\ Min({a, b}) <= a
         /\ Min({a, b}) <= b
<1>1. \E m \in {a, b} : \A n \in {a, b} : m <= n
  <2>1. CASE a <= b
    BY <2>1
  <2>2. CASE b <= a
    BY <2>2
  <2> QED BY <2>1, <2>2
<1>2. /\ Min({a, b}) \in {a, b}
      /\ \A n \in {a, b} : Min({a, b}) <= n
  BY <1>1 DEF Min
<1> QED BY <1>2

\* The steps a poll brings are numbers the server has not handed out before.
LEMMA Answer ==
  ASSUME NEW n \in Nat, handedOut \in 0..MaxSteps, MaxSteps \in Nat,
         n <= MaxSteps - handedOut
  PROVE  LET answer == [i \in 1..n |-> handedOut + i]
         IN  /\ answer \in Seq(StepIds)
             /\ Len(answer) = n
             /\ \A i \in 1..n : answer[i] = handedOut + i
<1> DEFINE answer == [i \in 1..n |-> handedOut + i]
<1>1. \A i \in 1..n : handedOut + i \in StepIds
  BY DEF StepIds
<1>2. answer \in [1..n -> StepIds]
  BY <1>1
<1>3. answer \in Seq(StepIds)
  BY <1>2, SeqDef
<1>4. Len(answer) = n
  BY <1>2, <1>3, LenProperties
<1> QED BY <1>3, <1>4

\* A notification wakes a waiting poller, and changes no other.
LEMMA NotifyFacts ==
  ASSUME NEW from \in [Pollers -> PollerStates], NotifySlot(from)
  PROVE  /\ poller' \in [Pollers -> PollerStates]
         /\ \A p \in Pollers : \/ poller'[p] = from[p]
                               \/ from[p] = "wait" /\ poller'[p] = "woken"
BY DEF NotifySlot, PollerStates

LEMMA ThreadsStep ==
  ASSUME ThreadsInv, [Next]_vars PROVE ThreadsInv'
<1> USE PoolAssumption DEF ThreadsInv
<1> USE DEF mainVars, pollerVars, executorVars
<1>1. CASE Start
  <2>1. Shape'
    <3>1. Len(workQueue) \in Nat /\ ThreadCount \in Nat
      BY FS_CardinalityType DEF Shape, ThreadCount
    <3>2. carried' \in Nat /\ idleExecutors' \in Nat /\ starts' \in 0..MaxStarts
      BY <1>1, <3>1 DEF Start, Shape
    <3>3. /\ poller' \in [Pollers -> PollerStates]
          /\ executor' \in [Executors -> ExecutorStates]
      BY <1>1 DEF Start, PollerStates, ExecutorStates
    <3>4. owner' = "running" /\ stopping' = FALSE
      BY <1>1 DEF Start
    <3> QED BY <1>1, <3>2, <3>3, <3>4 DEF Start, Shape
  <2>2. PollersHold' /\ ExecutorsHold' /\ Joined'
    BY <1>1 DEF Start, Shape, PollersHold, ExecutorsHold, Joined, Busy
  <2> QED BY <2>1, <2>2
<1>2. CASE Stop
  BY <1>2 DEF Stop, Shape, PollersHold, ExecutorsHold, Joined, Busy
<1>3. CASE NotifyAll
  <2>1. Shape' /\ PollersHold'
    BY <1>3 DEF NotifyAll, WokenExecutors, Shape, PollersHold, PollerStates,
                ExecutorStates
  <2>2. ExecutorsHold' /\ Joined'
    BY <1>3 DEF NotifyAll, WokenExecutors, Shape, ExecutorsHold, Joined, Busy
  <2> QED BY <2>1, <2>2
<1>4. CASE JoinPollers
  BY <1>4 DEF JoinPollers, Shape, PollersHold, ExecutorsHold, Joined, Busy
<1>5. CASE JoinExecutors
  BY <1>5 DEF JoinExecutors, Shape, PollersHold, ExecutorsHold, Joined, Busy
<1>6. ASSUME NEW p \in Pollers, PollerStep(p) \/ PollIntervalElapses(p)
      PROVE  ThreadsInv'
  <2>1. CASE PollerHead(p)
    BY <2>1 DEF PollerHead, Shape, PollersHold, ExecutorsHold, Joined, Busy,
                PollerStates
  <2>2. CASE NextDefinition(p)
    <3>1. /\ poller[p] = "cycle"
          /\ \E s \in {"head", "reserve"} : poller' = [poller EXCEPT ![p] = s]
          /\ \E rest \in SUBSET todo[p] : todo' = [todo EXCEPT ![p] = rest]
          /\ UNCHANGED <<mainVars, stopping, idleExecutors, workQueue, foundWork,
                         toRequest, response, executorVars, clientMutex,
                         handedOut>>
      BY <2>2 DEF NextDefinition
    <3>2. /\ todo' \in [Pollers -> SUBSET UNION {DefinitionsOf[q] : q \in Pollers}]
          /\ \A q \in Pollers : todo'[q] \subseteq DefinitionsOf[q]
      BY <3>1 DEF Shape
    <3>3. Shape'
      BY <3>1, <3>2 DEF Shape, PollerStates
    <3>4. PollersHold' /\ ExecutorsHold' /\ Joined'
      BY <3>1 DEF Shape, PollersHold, ExecutorsHold, Joined, Busy
    <3> QED BY <3>3, <3>4
  <2>3. CASE ReserveSlots(p)
    <3>1. CASE idleExecutors <= 0
      BY <2>3, <3>1 DEF ReserveSlots, Shape, PollersHold, ExecutorsHold, Joined,
                        Busy, PollerStates
    <3>2. CASE idleExecutors > 0
      <4> DEFINE n == Min({idleExecutors, MaxResultsPerPoll})
      <4>1. n \in Nat /\ n <= idleExecutors
        <5>1. idleExecutors \in Int /\ MaxResultsPerPoll \in Int
          BY DEF Shape
        <5>2. n \in {idleExecutors, MaxResultsPerPoll} /\ n <= idleExecutors
          BY <5>1, MinOfTwo
        <5> QED BY <5>2 DEF Shape
      <4> HIDE DEF n
      <4>2. /\ poller[p] = "reserve"
            /\ toRequest' = [toRequest EXCEPT ![p] = n]
            /\ idleExecutors' = idleExecutors - n
            /\ poller' = [poller EXCEPT ![p] = "poll"]
            /\ UNCHANGED <<mainVars, stopping, workQueue, todo, foundWork,
                           response, executorVars, clientMutex, handedOut>>
        BY <2>3, <3>2 DEF ReserveSlots, Shape, n
      <4>3. response[p] = <<>> /\ Len(response[p]) = 0
        BY <4>2, EmptySeq DEF PollersHold
      <4> QED BY <4>1, <4>2, <4>3
              DEF Shape, PollersHold, ExecutorsHold, Joined, Busy, PollerStates
    <3> QED BY <3>1, <3>2 DEF Shape
  <2>4. CASE Poll(p)
    BY <2>4 DEF Poll, Shape, PollersHold, ExecutorsHold, Joined, Busy,
                PollerStates, Threads
  <2>5. CASE PollReturns(p)
    <3> DEFINE left == Min({toRequest[p], MaxSteps - handedOut})
    <3>1. /\ left \in Int
          /\ left <= toRequest[p]
          /\ left <= MaxSteps - handedOut
      <4>1. toRequest[p] \in Int /\ MaxSteps - handedOut \in Int
        BY DEF Shape
      <4>2. /\ left \in {toRequest[p], MaxSteps - handedOut}
            /\ left <= toRequest[p]
            /\ left <= MaxSteps - handedOut
        BY <4>1, MinOfTwo
      <4> QED BY <4>1, <4>2
    <3> HIDE DEF left
    <3>2. PICK n \in 0..left :
            /\ handedOut' = handedOut + n
            /\ \/ /\ response' = [response EXCEPT ![p] =
                                    [i \in 1..n |-> handedOut + i]]
                  /\ poller' = [poller EXCEPT ![p] = "push"]
               \/ /\ poller' = [poller EXCEPT ![p] = "giveBack"]
                  /\ UNCHANGED response
      BY <2>5 DEF PollReturns, left
    <3>3. /\ poller[p] = "calling"
          /\ clientMutex' = None
          /\ UNCHANGED <<mainVars, stopping, idleExecutors, workQueue, todo,
                         foundWork, toRequest, executorVars>>
      BY <2>5 DEF PollReturns
    <3>4. /\ n \in Nat /\ n <= toRequest[p] /\ n <= MaxSteps - handedOut
          /\ handedOut' \in 0..MaxSteps
      BY <3>1, <3>2 DEF Shape
    <3> DEFINE answer == [i \in 1..n |-> handedOut + i]
    <3>5. answer \in Seq(StepIds) /\ Len(answer) = n
      BY <3>4, Answer DEF Shape
    <3> HIDE DEF answer
    <3>6. \/ /\ response' = [response EXCEPT ![p] = answer]
             /\ poller' = [poller EXCEPT ![p] = "push"]
          \/ /\ poller' = [poller EXCEPT ![p] = "giveBack"]
             /\ UNCHANGED response
      BY <3>2 DEF answer
    <3>7. Shape'
      <4>1. response' \in [Pollers -> Seq(StepIds)]
        BY <3>5, <3>6 DEF Shape
      <4>2. poller' \in [Pollers -> PollerStates]
        BY <3>6 DEF Shape, PollerStates
      <4> QED BY <3>3, <3>4, <4>1, <4>2 DEF Shape
    <3>8. PollersHold'
      BY <3>3, <3>4, <3>5, <3>6 DEF Shape, PollersHold
    <3>9. ExecutorsHold' /\ Joined'
      BY <3>3, <3>6 DEF Shape, ExecutorsHold, Joined, Busy
    <3> QED BY <3>7, <3>8, <3>9
  <2>6. CASE QueueSteps(p)
    <3> DEFINE back == [poller EXCEPT ![p] = "cycle"]
    <3>1. back \in [Pollers -> PollerStates]
      BY DEF Shape, PollerStates
    <3>2. /\ poller' \in [Pollers -> PollerStates]
          /\ \A q \in Pollers : \/ poller'[q] = back[q]
                                \/ back[q] = "wait" /\ poller'[q] = "woken"
      BY <2>6, <3>1, NotifyFacts DEF QueueSteps
    <3>3. /\ poller[p] = "push"
          /\ poller'[p] = "cycle"
          /\ \A q \in Pollers \ {p} :
               \/ poller'[q] = poller[q]
               \/ poller[q] = "wait" /\ poller'[q] = "woken"
      BY <2>6, <3>2 DEF QueueSteps, Shape
    <3>4. UnusedSlots(p) \in Nat
      BY LenProperties DEF UnusedSlots, Shape, PollersHold
    <3>5. workQueue \o response[p] \in Seq(StepIds)
      BY ConcatProperties DEF Shape
    <3>6. executor' = executor \/ executor' = WokenExecutors
      BY <2>6 DEF QueueSteps
    <3>7. Shape'
      <4>1. executor' \in [Executors -> ExecutorStates]
        BY <3>6 DEF WokenExecutors, Shape, ExecutorStates
      <4>2. idleExecutors' \in Nat /\ workQueue' \in Seq(StepIds)
        BY <2>6, <3>4, <3>5 DEF QueueSteps, Shape
      <4>3. /\ foundWork' \in [Pollers -> BOOLEAN]
            /\ toRequest' \in [Pollers -> Nat]
        BY <2>6 DEF QueueSteps, Shape
      <4>4. response' \in [Pollers -> Seq(StepIds)]
        BY <2>6, EmptySeq DEF QueueSteps, Shape
      <4> QED BY <2>6, <3>2, <4>1, <4>2, <4>3, <4>4 DEF QueueSteps, Shape
    <3>8. PollersHold'
      <4>1. /\ toRequest' = [toRequest EXCEPT ![p] = 0]
            /\ response' = [response EXCEPT ![p] = <<>>]
        BY <2>6 DEF QueueSteps
      <4>2. ASSUME NEW q \in Pollers, q # p
            PROVE  /\ toRequest'[q] = toRequest[q]
                   /\ response'[q] = response[q]
                   /\ \/ poller'[q] = poller[q]
                      \/ poller[q] = "wait" /\ poller'[q] = "woken"
        BY <3>3, <4>1, <4>2 DEF Shape
      <4>3. toRequest'[p] = 0 /\ response'[p] = <<>> /\ Len(response'[p]) = 0
        BY <4>1, EmptySeq DEF Shape
      <4> QED BY <3>3, <4>2, <4>3 DEF PollersHold
    <3>9. ExecutorsHold' /\ Joined'
      BY <2>6, <3>3, <3>6
         DEF QueueSteps, WokenExecutors, Shape, ExecutorsHold, Joined, Busy
    <3> QED BY <3>7, <3>8, <3>9
  <2>7. CASE GiveBackSlots(p)
    <3> DEFINE back == [poller EXCEPT ![p] = "cycle"]
    <3>1. back \in [Pollers -> PollerStates]
      BY DEF Shape, PollerStates
    <3>2. /\ poller' \in [Pollers -> PollerStates]
          /\ \A q \in Pollers : \/ poller'[q] = back[q]
                                \/ back[q] = "wait" /\ poller'[q] = "woken"
      BY <2>7, <3>1, NotifyFacts DEF GiveBackSlots
    <3>3. /\ poller[p] = "giveBack"
          /\ poller'[p] = "cycle"
          /\ \A q \in Pollers \ {p} :
               \/ poller'[q] = poller[q]
               \/ poller[q] = "wait" /\ poller'[q] = "woken"
      BY <2>7, <3>2 DEF GiveBackSlots, Shape
    <3>4. response[p] = <<>> /\ Len(response[p]) = 0
      BY <3>3, EmptySeq DEF PollersHold
    <3>5. Shape'
      <4>1. idleExecutors' \in Nat /\ toRequest' \in [Pollers -> Nat]
        BY <2>7 DEF GiveBackSlots, Shape
      <4> QED BY <2>7, <3>2, <4>1 DEF GiveBackSlots, Shape
    <3>6. PollersHold'
      <4>1. toRequest' = [toRequest EXCEPT ![p] = 0] /\ response' = response
        BY <2>7 DEF GiveBackSlots
      <4>2. ASSUME NEW q \in Pollers, q # p
            PROVE  /\ toRequest'[q] = toRequest[q]
                   /\ \/ poller'[q] = poller[q]
                      \/ poller[q] = "wait" /\ poller'[q] = "woken"
        BY <3>3, <4>1, <4>2 DEF Shape
      <4>3. toRequest'[p] = 0
        BY <4>1 DEF Shape
      <4> QED BY <3>3, <3>4, <4>1, <4>2, <4>3 DEF PollersHold
    <3>7. ExecutorsHold' /\ Joined'
      BY <2>7, <3>3 DEF GiveBackSlots, Shape, ExecutorsHold, Joined, Busy
    <3> QED BY <3>5, <3>6, <3>7
  <2>8. CASE EndCycle(p)
    BY <2>8 DEF EndCycle, Shape, PollersHold, ExecutorsHold, Joined, Busy,
                PollerStates
  <2>9. CASE PollerWakes(p)
    BY <2>9 DEF PollerWakes, Shape, PollersHold, ExecutorsHold, Joined, Busy,
                PollerStates
  <2>10. CASE PollIntervalElapses(p)
    BY <2>10 DEF PollIntervalElapses, Shape, PollersHold, ExecutorsHold, Joined,
                 Busy, PollerStates
  <2> QED BY <1>6, <2>1, <2>2, <2>3, <2>4, <2>5, <2>6, <2>7, <2>8, <2>9, <2>10
          DEF PollerStep
<1>7. ASSUME NEW x \in Executors, ExecutorStep(x) \/ KeepAliveStep(x)
      PROVE  ThreadsInv'
  <2>1. CASE TakeStep(x)
    <3>1. /\ Head(workQueue) \in StepIds /\ Head(workQueue) # None
          /\ Tail(workQueue) \in Seq(StepIds)
      BY <2>1, HeadTailProperties DEF TakeStep, Shape
    <3>2. /\ executor[x] = "ready"
          /\ workQueue' = Tail(workQueue)
          /\ job' = [job EXCEPT ![x] = Head(workQueue)]
          /\ \/ /\ executor' = [executor EXCEPT ![x] = "handling"]
                /\ keepAlive' = [keepAlive EXCEPT ![x] = "waiting"]
             \/ /\ executor' = [executor EXCEPT ![x] = "report"]
                /\ UNCHANGED keepAlive
          /\ UNCHANGED <<mainVars, stopping, idleExecutors, pollerVars, reported,
                         clientMutex, handedOut>>
      BY <2>1 DEF TakeStep
    <3>3. Shape'
      <4>1. job' \in [Executors -> StepIds \cup {None}]
        BY <3>1, <3>2 DEF Shape
      <4>2. /\ executor' \in [Executors -> ExecutorStates]
            /\ keepAlive' \in [Executors ->
                                 {"none", "waiting", "pinging", "calling"}]
        BY <3>2 DEF Shape, ExecutorStates
      <4> QED BY <3>1, <3>2, <4>1, <4>2 DEF Shape
    <3>4. PollersHold' /\ Joined'
      BY <3>2 DEF PollersHold, Joined
    <3>5. ExecutorsHold'
      <4>1. ASSUME NEW y \in Executors, y # x
            PROVE  /\ job'[y] = job[y]
                   /\ executor'[y] = executor[y]
                   /\ keepAlive'[y] = keepAlive[y]
        BY <3>2, <4>1 DEF Shape
      <4>2. /\ job'[x] # None
            /\ executor'[x] \in {"handling", "report"}
            /\ keepAlive'[x] # "none" => executor'[x] = "handling"
        BY <3>1, <3>2 DEF Shape, ExecutorsHold
      <4> QED BY <4>1, <4>2 DEF ExecutorsHold, Busy
    <3> QED BY <3>3, <3>4, <3>5
  <2>2. CASE SleepOrExit(x)
    BY <2>2 DEF SleepOrExit, Shape, PollersHold, ExecutorsHold, Joined, Busy,
                ExecutorStates
  <2>3. CASE HandlerEnds(x)
    BY <2>3 DEF HandlerEnds, Shape, PollersHold, ExecutorsHold, Joined, Busy,
                ExecutorStates
  <2>4. CASE JoinKeepAlive(x)
    BY <2>4 DEF JoinKeepAlive, Shape, PollersHold, ExecutorsHold, Joined, Busy,
                ExecutorStates
  <2>5. CASE Report(x)
    BY <2>5 DEF Report, Shape, PollersHold, ExecutorsHold, Joined, Busy,
                ExecutorStates, Threads
  <2>6. CASE ReportReturns(x)
    BY <2>6 DEF ReportReturns, Shape, PollersHold, ExecutorsHold, Joined, Busy,
                ExecutorStates
  <2>7. CASE ReleaseSlot(x)
    <3>1. /\ poller' \in [Pollers -> PollerStates]
          /\ \A q \in Pollers : \/ poller'[q] = poller[q]
                                \/ poller[q] = "wait" /\ poller'[q] = "woken"
      BY <2>7, NotifyFacts DEF ReleaseSlot, Shape
    <3>2. Shape'
      BY <2>7, <3>1 DEF ReleaseSlot, Shape, ExecutorStates
    <3>3. PollersHold'
      BY <2>7, <3>1 DEF ReleaseSlot, Shape, PollersHold
    <3>4. ExecutorsHold' /\ Joined'
      BY <2>7, <3>1 DEF ReleaseSlot, Shape, ExecutorsHold, Joined, Busy
    <3> QED BY <3>2, <3>3, <3>4
  <2>8. CASE PingDue(x)
    BY <2>8 DEF PingDue, Shape, PollersHold, ExecutorsHold, Joined, Busy
  <2>9. CASE Ping(x)
    BY <2>9 DEF Ping, Shape, PollersHold, ExecutorsHold, Joined, Busy
  <2>10. CASE PingReturns(x)
    BY <2>10 DEF PingReturns, Shape, PollersHold, ExecutorsHold, Joined, Busy
  <2> QED BY <1>7, <2>1, <2>2, <2>3, <2>4, <2>5, <2>6, <2>7, <2>8, <2>9, <2>10
          DEF ExecutorStep, KeepAliveStep
<1>8. CASE UNCHANGED vars
  BY <1>8 DEF vars, Shape, PollersHold, ExecutorsHold, Joined, Busy
<1> QED BY <1>1, <1>2, <1>3, <1>4, <1>5, <1>6, <1>7, <1>8 DEF Next, StopStep

LEMMA ThreadsInvariant == Spec => []ThreadsInv
<1>1. Init => ThreadsInv
  <2>1. ThreadCount \in Nat
    BY PoolAssumption, FS_CardinalityType DEF ThreadCount
  <2> SUFFICES ASSUME Init PROVE ThreadsInv
    OBVIOUS
  <2>2. Shape
    <3>1. /\ poller \in [Pollers -> PollerStates]
          /\ executor \in [Executors -> ExecutorStates]
      BY DEF Init, PollerStates, ExecutorStates
    <3>2. workQueue \in Seq(StepIds) /\ response \in [Pollers -> Seq(StepIds)]
      BY EmptySeq DEF Init
    <3>3. /\ todo \in [Pollers -> SUBSET UNION {DefinitionsOf[p] : p \in Pollers}]
          /\ \A p \in Pollers : todo[p] \subseteq DefinitionsOf[p]
      BY DEF Init
    <3>4. /\ foundWork \in [Pollers -> BOOLEAN]
          /\ toRequest \in [Pollers -> Nat]
          /\ job \in [Executors -> StepIds \cup {None}]
          /\ keepAlive \in [Executors ->
                             {"none", "waiting", "pinging", "calling"}]
      BY DEF Init
    <3>5. /\ starts \in 0..MaxStarts /\ handedOut \in 0..MaxSteps
          /\ carried \in Nat /\ idleExecutors \in Nat
      BY <2>1, PoolAssumption DEF Init
    <3> QED BY <3>1, <3>2, <3>3, <3>4, <3>5 DEF Init, Shape
  <2>3. PollersHold /\ ExecutorsHold /\ Joined
    BY EmptySeq DEF Init, PollersHold, ExecutorsHold, Joined, Busy
  <2> QED BY <2>2, <2>3 DEF ThreadsInv
<1> QED BY <1>1, ThreadsStep, PTL DEF Spec

\* "complete/fail always follows last ping": when an executor begins to report,
\* its KeepAliveThread is joined, whichever mutexes pings are waiting for.
THEOREM NoPingDuringReport == Spec => []PingsEndBeforeReport
<1>1. ThreadsInv => PingsEndBeforeReport
  BY DEF ThreadsInv, Shape, ExecutorsHold, PingsEndBeforeReport
<1> QED BY <1>1, ThreadsInvariant, PTL

\* The calls of the client that are under way are the one of the thread that
\* holds clientMutex.
ClientExclusive ==
  /\ \A p \in Pollers : poller[p] = "calling" <=> clientMutex = p
  /\ \A x \in Executors :
       /\ executor[x] = "calling" <=> clientMutex = x
       /\ keepAlive[x] = "calling" <=> clientMutex = KeepAlive(x)

\* Pollers, executors and KeepAliveThreads share one client, which is not for
\* use by two threads at once: no two calls of it overlap, in any run of the
\* pool and across a stop and a new start.
THEOREM OneCallAtATime == Spec => []ClientExclusive
<1> USE PoolAssumption DEF mainVars, pollerVars, executorVars
<1>1. Init => ClientExclusive
  BY KeepAliveAssumption DEF Init, ClientExclusive, Threads
<1>2. ASSUME ThreadsInv, ClientExclusive, [Next]_vars
      PROVE  ClientExclusive'
  <2>0. Shape /\ Joined
    BY <1>2 DEF ThreadsInv
  <2>1. \A x \in Executors, y \in Executors : KeepAlive(x) = KeepAlive(y) => x = y
    BY DEF KeepAlive
  <2>2. /\ \A x \in Executors : KeepAlive(x) # None /\ x # None
        /\ \A p \in Pollers : p # None
        /\ \A x \in Executors, p \in Pollers : x # p /\ KeepAlive(x) # p
        /\ \A x \in Executors, y \in Executors : KeepAlive(x) # y
    BY KeepAliveAssumption DEF Threads
  <2>3. CASE Start
    BY <1>2, <2>0, <2>3 DEF Start, Joined, ClientExclusive, Shape
  <2>4. CASE Stop \/ StopStep
    BY <1>2, <2>0, <2>4 DEF Stop, StopStep, NotifyAll, JoinPollers,
                            JoinExecutors, WokenExecutors, ClientExclusive, Shape
  <2>5. ASSUME NEW p \in Pollers, PollerStep(p) \/ PollIntervalElapses(p)
        PROVE  ClientExclusive'
    <3>1. CASE Poll(p)
      BY <1>2, <2>0, <2>2, <3>1 DEF Poll, ClientExclusive, Shape
    <3>2. CASE PollReturns(p)
      <4>1. /\ poller[p] = "calling" /\ clientMutex' = None
            /\ \E s \in {"push", "giveBack"} : poller' = [poller EXCEPT ![p] = s]
            /\ UNCHANGED <<executor, keepAlive>>
        BY <3>2 DEF PollReturns
      <4> QED BY <1>2, <2>0, <2>2, <4>1 DEF ClientExclusive, Shape
    <3>3. CASE QueueSteps(p) \/ GiveBackSlots(p)
      <4> DEFINE back == [poller EXCEPT ![p] = "cycle"]
      <4>1. back \in [Pollers -> PollerStates] /\ poller[p] # "calling"
        BY <2>0, <3>3 DEF Shape, PollerStates, QueueSteps, GiveBackSlots
      <4>2. \A q \in Pollers : \/ poller'[q] = back[q]
                               \/ back[q] = "wait" /\ poller'[q] = "woken"
        BY <3>3, <4>1, NotifyFacts DEF QueueSteps, GiveBackSlots
      <4>3. \A q \in Pollers : poller'[q] = "calling" <=> poller[q] = "calling"
        BY <2>0, <4>1, <4>2 DEF Shape
      <4>4. /\ UNCHANGED <<keepAlive, clientMutex>>
            /\ executor' = executor \/ executor' = WokenExecutors
        BY <3>3 DEF QueueSteps, GiveBackSlots
      <4> QED BY <1>2, <2>0, <4>3, <4>4 DEF ClientExclusive, WokenExecutors, Shape
    <3>4. CASE ~(Poll(p) \/ PollReturns(p) \/ QueueSteps(p) \/ GiveBackSlots(p))
      BY <1>2, <2>0, <2>5, <3>4
         DEF PollerStep, PollerHead, NextDefinition, ReserveSlots, EndCycle,
             PollerWakes, PollIntervalElapses, ClientExclusive, Shape
    <3> QED BY <3>1, <3>2, <3>3, <3>4
  <2>6. ASSUME NEW x \in Executors, ExecutorStep(x) \/ KeepAliveStep(x)
        PROVE  ClientExclusive'
    <3>1. CASE Report(x) \/ ReportReturns(x)
      <4>1. /\ \/ /\ executor[x] # "calling" /\ clientMutex = None
                  /\ executor' = [executor EXCEPT ![x] = "calling"]
                  /\ clientMutex' = x
               \/ /\ executor[x] = "calling" /\ clientMutex' = None
                  /\ executor' = [executor EXCEPT ![x] = "release"]
            /\ UNCHANGED <<poller, keepAlive>>
        BY <3>1 DEF Report, ReportReturns
      <4>2. /\ executor'[x] = "calling" <=> clientMutex' = x
            /\ \A y \in Executors \ {x} : executor'[y] = executor[y]
        BY <2>0, <2>2, <4>1 DEF Shape
      <4> QED BY <1>2, <2>2, <4>1, <4>2 DEF ClientExclusive
    <3>2. CASE Ping(x) \/ PingReturns(x)
      <4>1. /\ \/ /\ keepAlive[x] # "calling" /\ clientMutex = None
                  /\ keepAlive' = [keepAlive EXCEPT ![x] = "calling"]
                  /\ clientMutex' = KeepAlive(x)
               \/ /\ keepAlive[x] = "calling" /\ clientMutex' = None
                  /\ keepAlive' = [keepAlive EXCEPT ![x] = "waiting"]
            /\ UNCHANGED <<poller, executor>>
        BY <3>2 DEF Ping, PingReturns
      <4>2. /\ keepAlive'[x] = "calling" <=> clientMutex' = KeepAlive(x)
            /\ \A y \in Executors \ {x} : keepAlive'[y] = keepAlive[y]
        BY <2>0, <2>2, <4>1 DEF Shape
      <4> HIDE DEF KeepAlive
      <4> QED BY <1>2, <2>1, <2>2, <4>1, <4>2 DEF ClientExclusive
    <3>3. CASE ReleaseSlot(x)
      <4>1. \A q \in Pollers : \/ poller'[q] = poller[q]
                               \/ poller[q] = "wait" /\ poller'[q] = "woken"
        BY <2>0, <3>3, NotifyFacts DEF ReleaseSlot, Shape
      <4> QED BY <1>2, <2>0, <3>3, <4>1 DEF ReleaseSlot, ClientExclusive, Shape
    <3>4. CASE TakeStep(x)
      <4>1. /\ UNCHANGED <<poller, clientMutex>>
            /\ \A y \in Executors :
                 /\ executor'[y] = "calling" <=> executor[y] = "calling"
                 /\ keepAlive'[y] = "calling" <=> keepAlive[y] = "calling"
        <5>1. /\ executor[x] = "ready" /\ keepAlive[x] = "none"
              /\ \E s \in {"handling", "report"} :
                   executor' = [executor EXCEPT ![x] = s]
              /\ \/ keepAlive' = [keepAlive EXCEPT ![x] = "waiting"]
                 \/ UNCHANGED keepAlive
              /\ UNCHANGED <<poller, clientMutex>>
          BY <1>2, <2>0, <3>4 DEF TakeStep, ThreadsInv, ExecutorsHold, Shape
        <5> QED BY <2>0, <5>1 DEF Shape
      <4> QED BY <1>2, <4>1 DEF ClientExclusive
    <3>5. CASE SleepOrExit(x) \/ HandlerEnds(x) \/ JoinKeepAlive(x) \/ PingDue(x)
      BY <1>2, <2>0, <3>5 DEF SleepOrExit, HandlerEnds, JoinKeepAlive, PingDue,
                              ClientExclusive, Shape
    <3> QED BY <2>6, <3>1, <3>2, <3>3, <3>4, <3>5 DEF ExecutorStep, KeepAliveStep
  <2>7. CASE UNCHANGED vars
    BY <1>2, <2>7 DEF vars, ClientExclusive
  <2> QED BY <1>2, <2>3, <2>4, <2>5, <2>6, <2>7 DEF Next
<1> QED BY <1>1, <1>2, ThreadsInvariant, PTL DEF Spec

-----------------------------------------------------------------------------
(* A claimed step is in one place: on its way in a poller's answer, in the *)
(* queue, with an executor, or reported on.                                *)

Answered(p) == Range(response[p])

InQueue == Range(workQueue)

QueueApart ==
  /\ IsInjective(workQueue)
  /\ InQueue \subseteq 1..handedOut
  /\ \A p \in Pollers :
       /\ IsInjective(response[p])
       /\ Answered(p) \subseteq 1..handedOut
       /\ Answered(p) \cap InQueue = {}
       /\ \A q \in Pollers \ {p} : Answered(p) \cap Answered(q) = {}

JobsApart ==
  \A x \in Executors : job[x] # None =>
    /\ job[x] \in 1..handedOut
    /\ job[x] \notin InQueue
    /\ \A p \in Pollers : job[x] \notin Answered(p)
    /\ \A y \in Executors \ {x} : job[y] # job[x]
    /\ job[x] \in reported => executor[x] = "release"

ReportedApart ==
  /\ reported \subseteq 1..handedOut
  /\ reported \cap InQueue = {}
  /\ \A p \in Pollers : reported \cap Answered(p) = {}

StepsApart == QueueApart /\ JobsApart /\ ReportedApart

\* Steps put behind the queue.
LEMMA QueueGrows ==
  ASSUME NEW S, NEW s \in Seq(S), NEW t \in Seq(S),
         IsInjective(s), IsInjective(t), Range(s) \cap Range(t) = {}
  PROVE  IsInjective(s \o t) /\ Range(s \o t) = Range(s) \cup Range(t)
<1>1. Range(s \o t) = Range(s) \cup Range(t)
  BY RangeConcatenation
<1>2. /\ Len(s) \in Nat /\ Len(t) \in Nat
      /\ DOMAIN s = 1..Len(s) /\ DOMAIN t = 1..Len(t)
      /\ s \o t \in Seq(S) /\ Len(s \o t) = Len(s) + Len(t)
      /\ \A i \in 1..(Len(s) + Len(t)) :
           (s \o t)[i] = IF i <= Len(s) THEN s[i] ELSE t[i - Len(s)]
  BY LenProperties, ConcatProperties
<1>3. DOMAIN (s \o t) = 1..(Len(s) + Len(t))
  BY <1>2, LenProperties
<1>4. ASSUME NEW i \in 1..(Len(s) + Len(t)), NEW j \in 1..(Len(s) + Len(t)),
             (s \o t)[i] = (s \o t)[j], i <= j
      PROVE  i = j
  <2>1. CASE j <= Len(s)
    BY <1>2, <1>4, <2>1 DEF IsInjective
  <2>2. CASE i > Len(s)
    <3>1. /\ i - Len(s) \in 1..Len(t) /\ j - Len(s) \in 1..Len(t)
          /\ t[i - Len(s)] = t[j - Len(s)]
      BY <1>2, <1>4, <2>2
    <3>2. i - Len(s) = j - Len(s)
      BY <1>2, <3>1 DEF IsInjective
    <3> QED BY <1>2, <3>2
  <2>3. CASE i <= Len(s) /\ j > Len(s)
    <3>1. /\ i \in DOMAIN s /\ j - Len(s) \in DOMAIN t
          /\ s[i] = t[j - Len(s)]
      BY <1>2, <1>4, <2>3
    <3> QED BY <3>1 DEF Range
  <2> QED BY <1>2, <1>4, <2>1, <2>2, <2>3
<1>5. ASSUME NEW i \in 1..(Len(s) + Len(t)), NEW j \in 1..(Len(s) + Len(t)),
             (s \o t)[i] = (s \o t)[j]
      PROVE  i = j
  <2>1. i <= j \/ j <= i
    BY <1>2
  <2> QED BY <1>4, <1>5, <2>1
<1> QED BY <1>1, <1>3, <1>5 DEF IsInjective

\* The step in front taken from the queue.
LEMMA QueueShrinks ==
  ASSUME NEW S, NEW s \in Seq(S), s # <<>>, IsInjective(s)
  PROVE  /\ IsInjective(Tail(s))
         /\ Head(s) \in Range(s)
         /\ Range(Tail(s)) = Range(s) \ {Head(s)}
<1>1. /\ Len(s) \in Nat \ {0} /\ DOMAIN s = 1..Len(s)
      /\ Tail(s) \in Seq(S) /\ Len(Tail(s)) = Len(s) - 1
      /\ \A i \in 1..(Len(s) - 1) : Tail(s)[i] = s[i + 1]
  BY LenProperties, EmptySeq, HeadTailProperties
<1>2. DOMAIN Tail(s) = 1..(Len(s) - 1)
  BY <1>1, LenProperties
<1>3. Head(s) = s[1]
  BY <1>1
<1>4. ASSUME NEW i \in 1..(Len(s) - 1), NEW j \in 1..(Len(s) - 1),
             Tail(s)[i] = Tail(s)[j]
      PROVE  i = j
  <2>1. i + 1 \in DOMAIN s /\ j + 1 \in DOMAIN s /\ s[i + 1] = s[j + 1]
    BY <1>1, <1>4
  <2>2. i + 1 = j + 1
    BY <2>1 DEF IsInjective
  <2> QED BY <1>1, <2>2
<1>5. Head(s) \in Range(s)
  BY <1>1, <1>3 DEF Range
<1>6. Range(Tail(s)) \subseteq Range(s) \ {Head(s)}
  <2> SUFFICES ASSUME NEW i \in 1..(Len(s) - 1)
               PROVE  s[i + 1] \in Range(s) /\ s[i + 1] # s[1]
    BY <1>1, <1>2, <1>3 DEF Range
  <2>1. i + 1 \in DOMAIN s /\ 1 \in DOMAIN s /\ i + 1 # 1
    BY <1>1
  <2> QED BY <2>1 DEF Range, IsInjective
<1>7. Range(s) \ {Head(s)} \subseteq Range(Tail(s))
  <2> SUFFICES ASSUME NEW k \in DOMAIN s, s[k] # s[1]
               PROVE  s[k] \in Range(Tail(s))
    BY <1>3 DEF Range
  <2>1. k - 1 \in DOMAIN Tail(s) /\ Tail(s)[k - 1] = s[k]
    BY <1>1, <1>2
  <2> QED BY <2>1 DEF Range
<1> QED BY <1>2, <1>4, <1>5, <1>6, <1>7 DEF IsInjective

\* An empty sequence has nothing in it.
LEMMA NothingIn == Range(<<>>) = {} /\ IsInjective(<<>>)
BY DEF Range, IsInjective

\* The steps of an answer are new and distinct.
LEMMA AnswerIsNew ==
  ASSUME NEW n \in Nat, handedOut \in 0..MaxSteps, MaxSteps \in Nat,
         n <= MaxSteps - handedOut
  PROVE  LET answer == [i \in 1..n |-> handedOut + i]
         IN  /\ IsInjective(answer)
             /\ Range(answer) \subseteq (handedOut + 1)..(handedOut + n)
BY DEF IsInjective, Range

LEMMA ApartStep ==
  ASSUME ThreadsInv, StepsApart, [Next]_vars
  PROVE  StepsApart'
<1> USE PoolAssumption DEF mainVars, pollerVars, executorVars
<1> DEFINE places == <<workQueue, response, job, reported, handedOut>>
<1>0. Shape /\ PollersHold /\ ExecutorsHold /\ Joined
  BY DEF ThreadsInv
<1>1. ASSUME UNCHANGED places,
             \A x \in Executors : executor[x] = "release" =>
                                    executor'[x] = "release"
      PROVE  StepsApart'
  BY <1>1 DEF StepsApart, QueueApart, JobsApart, ReportedApart, Answered, InQueue
<1>2. CASE Start
  <2>1. \A x \in Executors : executor[x] = "off"
    BY <1>0, <1>2 DEF Start, Joined
  <2> QED BY <1>1, <1>2, <2>1 DEF Start
<1>3. CASE Stop \/ StopStep
  BY <1>0, <1>1, <1>3 DEF Stop, StopStep, NotifyAll, JoinPollers, JoinExecutors,
                          WokenExecutors
<1>4. ASSUME NEW p \in Pollers, PollReturns(p)
      PROVE  StepsApart'
  <2> DEFINE left == Min({toRequest[p], MaxSteps - handedOut})
  <2>1. PICK n \in 0..left :
          /\ handedOut' = handedOut + n
          /\ \/ response' = [response EXCEPT ![p] =
                               [i \in 1..n |-> handedOut + i]]
             \/ UNCHANGED response
    BY <1>4 DEF PollReturns
  <2>2. n \in Nat /\ n <= MaxSteps - handedOut
    <3>1. toRequest[p] \in Int /\ MaxSteps - handedOut \in Int
      BY <1>0 DEF Shape
    <3>2. left \in Int /\ left <= MaxSteps - handedOut
      BY <3>1, MinOfTwo
    <3> HIDE DEF left
    <3> QED BY <3>1, <3>2
  <2>3. /\ handedOut \in Nat
        /\ 1..handedOut \subseteq 1..handedOut'
    BY <1>0, <2>1, <2>2 DEF Shape
  <2>4. UNCHANGED <<workQueue, job, reported, executor>>
    BY <1>4 DEF PollReturns
  <2>5. CASE UNCHANGED response
    BY <2>3, <2>4, <2>5
       DEF StepsApart, QueueApart, JobsApart, ReportedApart, Answered, InQueue
  <2> DEFINE answer == [i \in 1..n |-> handedOut + i]
  <2>6. CASE response' = [response EXCEPT ![p] = answer]
    <3>1. /\ IsInjective(answer)
          /\ Range(answer) \subseteq (handedOut + 1)..(handedOut + n)
      BY <1>0, <2>2, AnswerIsNew DEF Shape
    <3>2. /\ Range(answer) \subseteq 1..handedOut'
          /\ Range(answer) \cap (1..handedOut) = {}
      BY <2>1, <2>2, <2>3, <3>1
    <3> HIDE DEF answer
    <3>3. /\ response'[p] = answer
          /\ \A q \in Pollers \ {p} : response'[q] = response[q]
      BY <1>0, <2>6 DEF Shape
    <3>4. QueueApart'
      BY <2>3, <2>4, <3>1, <3>2, <3>3
         DEF StepsApart, QueueApart, Answered, InQueue
    <3>5. JobsApart'
      BY <2>3, <2>4, <3>2, <3>3 DEF StepsApart, JobsApart, Answered, InQueue
    <3>6. ReportedApart'
      BY <2>3, <2>4, <3>2, <3>3 DEF StepsApart, ReportedApart, Answered, InQueue
    <3> QED BY <3>4, <3>5, <3>6 DEF StepsApart
  <2> QED BY <2>1, <2>5, <2>6
<1>5. ASSUME NEW p \in Pollers, QueueSteps(p)
      PROVE  StepsApart'
  <2>1. /\ workQueue' = workQueue \o response[p]
        /\ response' = [response EXCEPT ![p] = <<>>]
        /\ UNCHANGED <<job, reported, handedOut>>
        /\ executor' = executor \/ executor' = WokenExecutors
    BY <1>5 DEF QueueSteps
  <2>2. /\ workQueue \in Seq(StepIds) /\ response[p] \in Seq(StepIds)
        /\ IsInjective(workQueue) /\ IsInjective(response[p])
        /\ Range(workQueue) \cap Range(response[p]) = {}
    BY <1>0 DEF Shape, StepsApart, QueueApart, Answered, InQueue
  <2>3. IsInjective(workQueue') /\ InQueue' = InQueue \cup Answered(p)
    BY <2>1, <2>2, QueueGrows DEF InQueue, Answered
  <2>4. /\ IsInjective(response'[p]) /\ Answered(p)' = {}
        /\ \A q \in Pollers \ {p} : /\ response'[q] = response[q]
                                    /\ Answered(q)' = Answered(q)
    BY <1>0, <2>1, NothingIn DEF Shape, Answered
  <2>5. QueueApart'
    <3> SUFFICES ASSUME NEW q \in Pollers
                 PROVE  /\ IsInjective(response'[q])
                        /\ Answered(q)' \subseteq 1..handedOut
                        /\ Answered(q)' \cap (InQueue \cup Answered(p)) = {}
                        /\ \A r \in Pollers \ {q} :
                             Answered(q)' \cap Answered(r)' = {}
      BY <2>1, <2>3 DEF StepsApart, QueueApart
    <3>1. CASE q = p
      BY <2>4, <3>1
    <3>2. CASE q # p
      <4>1. IsInjective(response'[q]) /\ Answered(q)' = Answered(q)
        BY <2>4, <3>2 DEF StepsApart, QueueApart
      <4>2. \A r \in Pollers \ {q} : Answered(q) \cap Answered(r)' = {}
        BY <2>4 DEF StepsApart, QueueApart
      <4> QED BY <3>2, <4>1, <4>2 DEF StepsApart, QueueApart
    <3> QED BY <3>1, <3>2
  <2>6. JobsApart'
    <3>1. \A x \in Executors : executor[x] = "release" =>
                                 executor'[x] = "release"
      BY <1>0, <2>1 DEF Shape, WokenExecutors
    <3> QED BY <2>1, <2>3, <2>4, <3>1 DEF StepsApart, JobsApart
  <2>7. ReportedApart'
    BY <2>1, <2>3, <2>4 DEF StepsApart, ReportedApart
  <2> QED BY <2>5, <2>6, <2>7 DEF StepsApart
<1>6. ASSUME NEW p \in Pollers, PollerStep(p) \/ PollIntervalElapses(p)
      PROVE  StepsApart'
  <2>1. \/ PollReturns(p) \/ QueueSteps(p)
        \/ UNCHANGED places /\ UNCHANGED executor
    BY <1>6 DEF PollerStep, PollerHead, NextDefinition, ReserveSlots, Poll,
                GiveBackSlots, EndCycle, PollerWakes, PollIntervalElapses
  <2> QED BY <1>1, <1>4, <1>5, <2>1
<1>7. ASSUME NEW x \in Executors, TakeStep(x)
      PROVE  StepsApart'
  <2> DEFINE s == Head(workQueue)
  <2>1. /\ workQueue' = Tail(workQueue)
        /\ job' = [job EXCEPT ![x] = s]
        /\ UNCHANGED <<response, reported, handedOut>>
        /\ \A y \in Executors \ {x} : executor'[y] = executor[y]
    BY <1>0, <1>7 DEF TakeStep, Shape
  <2>2. IsInjective(workQueue') /\ s \in InQueue /\ InQueue' = InQueue \ {s}
    <3>1. workQueue \in Seq(StepIds) /\ workQueue # <<>>
      BY <1>0, <1>7 DEF Shape, TakeStep
    <3> QED BY <2>1, <3>1, QueueShrinks DEF StepsApart, QueueApart, InQueue
  <2> HIDE DEF s
  <2>3. \A p \in Pollers : Answered(p)' = Answered(p)
    BY <2>1 DEF Answered
  <2>4. QueueApart'
    BY <2>1, <2>2, <2>3 DEF StepsApart, QueueApart
  <2>5. ReportedApart'
    BY <2>1, <2>2, <2>3 DEF StepsApart, ReportedApart
  <2>6. JobsApart'
    <3>1. /\ job'[x] = s
          /\ \A y \in Executors \ {x} : job'[y] = job[y]
      BY <1>0, <2>1 DEF Shape
    <3>2. /\ s \in 1..handedOut /\ s \notin reported
          /\ \A p \in Pollers : s \notin Answered(p)
      BY <2>2 DEF StepsApart, QueueApart, ReportedApart
    <3>3. ASSUME NEW y \in Executors \ {x}, job[y] # None
          PROVE  job[y] # s
      BY <2>2, <3>3 DEF StepsApart, JobsApart
    <3>4. s # None
      BY <1>0, <3>2 DEF Shape, StepIds
    <3> SUFFICES ASSUME NEW y \in Executors, job'[y] # None
                 PROVE  /\ job'[y] \in 1..handedOut
                        /\ job'[y] \notin InQueue \ {s}
                        /\ \A p \in Pollers : job'[y] \notin Answered(p)
                        /\ \A z \in Executors \ {y} : job'[z] # job'[y]
                        /\ job'[y] \in reported => executor'[y] = "release"
      BY <2>1, <2>2, <2>3 DEF JobsApart
    <3>5. CASE y = x
      BY <3>1, <3>2, <3>3, <3>4, <3>5
    <3>6. CASE y # x
      BY <2>1, <3>1, <3>3, <3>6 DEF StepsApart, JobsApart
    <3> QED BY <3>5, <3>6
  <2> QED BY <2>4, <2>5, <2>6 DEF StepsApart
<1>8. ASSUME NEW x \in Executors, ReportReturns(x)
      PROVE  StepsApart'
  <2>1. /\ executor[x] = "calling"
        /\ executor' = [executor EXCEPT ![x] = "release"]
        /\ reported' = reported \cup {job[x]}
        /\ UNCHANGED <<workQueue, response, job, handedOut>>
    BY <1>8 DEF ReportReturns
  <2>2. job[x] # None
    BY <1>0, <2>1 DEF ExecutorsHold, Busy
  <2>3. QueueApart'
    BY <2>1 DEF StepsApart, QueueApart, Answered, InQueue
  <2>4. JobsApart'
    BY <1>0, <2>1, <2>2 DEF Shape, StepsApart, JobsApart, Answered, InQueue
  <2>5. ReportedApart'
    BY <2>1, <2>2 DEF StepsApart, JobsApart, ReportedApart, Answered, InQueue
  <2> QED BY <2>3, <2>4, <2>5 DEF StepsApart
<1>9. ASSUME NEW x \in Executors, ReleaseSlot(x)
      PROVE  StepsApart'
  <2>1. /\ executor' = [executor EXCEPT ![x] = "ready"]
        /\ job' = [job EXCEPT ![x] = None]
        /\ UNCHANGED <<workQueue, response, reported, handedOut>>
    BY <1>9 DEF ReleaseSlot
  <2>2. QueueApart' /\ ReportedApart'
    BY <2>1 DEF StepsApart, QueueApart, ReportedApart, Answered, InQueue
  <2>3. JobsApart'
    BY <1>0, <2>1 DEF Shape, StepsApart, JobsApart, Answered, InQueue
  <2> QED BY <2>2, <2>3 DEF StepsApart
<1>10. ASSUME NEW x \in Executors, ExecutorStep(x) \/ KeepAliveStep(x)
       PROVE  StepsApart'
  <2>1. \/ TakeStep(x) \/ ReportReturns(x) \/ ReleaseSlot(x)
        \/ /\ UNCHANGED places
           /\ \A y \in Executors : executor[y] = "release" =>
                                     executor'[y] = "release"
    BY <1>0, <1>10
       DEF ExecutorStep, KeepAliveStep, SleepOrExit, HandlerEnds, JoinKeepAlive,
           Report, PingDue, Ping, PingReturns, Shape
  <2> QED BY <1>1, <1>7, <1>8, <1>9, <2>1
<1>11. CASE UNCHANGED vars
  BY <1>1, <1>11 DEF vars
<1> QED BY <1>2, <1>3, <1>6, <1>10, <1>11 DEF Next

LEMMA ApartInvariant == Spec => []StepsApart
<1>1. Init => StepsApart
  <2> SUFFICES ASSUME Init PROVE StepsApart
    OBVIOUS
  <2>1. /\ IsInjective(workQueue) /\ InQueue = {} /\ reported = {}
        /\ \A p \in Pollers : IsInjective(response[p]) /\ Answered(p) = {}
        /\ \A x \in Executors : job[x] = None
    BY NothingIn DEF Init, InQueue, Answered
  <2> QED BY <2>1 DEF StepsApart, QueueApart, JobsApart, ReportedApart
<1> QED BY <1>1, ApartStep, ThreadsInvariant, PTL DEF Spec

\* However many pollers, executors and starts: a step the server handed out is
\* never queued and running, running twice, or queued or running again once it
\* was reported on.
THEOREM StepsRunOnce == Spec => []RunOnce
<1>1. ThreadsInv /\ StepsApart => RunOnce
  <2> SUFFICES ASSUME ThreadsInv, StepsApart PROVE RunOnce
    OBVIOUS
  <2>1. \A s : Queued(s) => s \in InQueue
    BY RangeEquality, LenProperties DEF ThreadsInv, Shape, Queued, InQueue
  <2> QED BY <2>1 DEF StepsApart, JobsApart, ReportedApart, RunOnce
<1> QED BY <1>1, ThreadsInvariant, ApartInvariant, PTL

-----------------------------------------------------------------------------
(* Slots.  The slots the pollers in P hold, as pairs of a poller and a     *)
(* number, when f says how many each holds: Reserved is how many there are *)
(* in all.                                                                 *)

Slots(P, f) == UNION {{p} \X (1..f[p]) : p \in P}

LEMMA ReservedSlots == Reserved = Cardinality(Slots(Pollers, toRequest))
BY DEF Reserved, Slots

LEMMA SlotsOfOne ==
  ASSUME NEW p, NEW n \in Nat
  PROVE  IsFiniteSet({p} \X (1..n)) /\ Cardinality({p} \X (1..n)) = n
<1>1. IsFiniteSet(1..n) /\ Cardinality(1..n) = n
  BY FS_Interval
<1>2. IsFiniteSet({p}) /\ Cardinality({p}) = 1
  BY FS_Singleton
<1>3. /\ IsFiniteSet({p} \X (1..n))
      /\ Cardinality({p} \X (1..n)) = Cardinality({p}) * Cardinality(1..n)
  BY <1>1, <1>2, FS_Product
<1> QED BY <1>1, <1>2, <1>3

LEMMA SlotsFinite ==
  ASSUME NEW P, IsFiniteSet(P), NEW f \in [P -> Nat]
  PROVE  IsFiniteSet(Slots(P, f))
<1> DEFINE held == [p \in P |-> {p} \X (1..f[p])]
           all == {held[p] : p \in P}
<1>1. held \in Surjection(P, all)
  BY DEF Surjection
<1>2. IsFiniteSet(all)
  BY <1>1, FS_Surjection
<1>3. ASSUME NEW p \in P PROVE IsFiniteSet(held[p])
  <2>1. f[p] \in Nat
    OBVIOUS
  <2>2. IsFiniteSet({p} \X (1..f[p]))
    BY <2>1, SlotsOfOne
  <2> QED BY <2>2
<1>4. IsFiniteSet(UNION all)
  <2> HIDE DEF held
  <2> QED BY <1>2, <1>3, FS_UNION
<1>5. Slots(P, f) = UNION all
  BY DEF Slots
<1> QED BY <1>4, <1>5

\* The slots of one poller, and those of the others.
LEMMA SlotsSplit ==
  ASSUME NEW P, IsFiniteSet(P), NEW f \in [P -> Nat], NEW p \in P
  PROVE  /\ IsFiniteSet(Slots(P \ {p}, f))
         /\ Cardinality(Slots(P, f)) = Cardinality(Slots(P \ {p}, f)) + f[p]
<1> DEFINE rest == Slots(P \ {p}, f)
           own == {p} \X (1..f[p])
<1>1. Slots(P, f) = rest \cup own
  BY DEF Slots
<1>2. rest \cap own = {}
  BY DEF Slots
<1>3. IsFiniteSet(Slots(P, f))
  BY SlotsFinite
<1>4. rest \in SUBSET Slots(P, f)
  BY <1>1
<1>5. IsFiniteSet(rest)
  BY <1>3, <1>4, FS_Subset
<1>6. IsFiniteSet(own) /\ Cardinality(own) = f[p]
  BY SlotsOfOne
<1>7. Cardinality(rest \cup own)
        = Cardinality(rest) + Cardinality(own) - Cardinality(rest \cap own)
  BY <1>5, <1>6, FS_Union
<1>8. Cardinality(rest \cap own) = 0
  BY <1>2, FS_EmptySet
<1>9. Cardinality(rest) \in Nat
  BY <1>5, FS_CardinalityType
<1> QED BY <1>1, <1>5, <1>6, <1>7, <1>8, <1>9

\* When one poller changes what it holds, Reserved changes by as much.
LEMMA ReservedChanges ==
  ASSUME NEW p \in Pollers, NEW n \in Nat, toRequest \in [Pollers -> Nat],
         toRequest' = [toRequest EXCEPT ![p] = n]
  PROVE  /\ Reserved \in Nat /\ Reserved' \in Nat
         /\ Reserved' = Reserved - toRequest[p] + n
<1> DEFINE rest == Slots(Pollers \ {p}, toRequest)
<1>1. /\ IsFiniteSet(rest)
      /\ Reserved = Cardinality(rest) + toRequest[p]
  BY PoolAssumption, SlotsSplit, ReservedSlots
<1>2. toRequest' \in [Pollers -> Nat] /\ toRequest'[p] = n
  OBVIOUS
<1>3. Slots(Pollers \ {p}, toRequest') = rest
  BY DEF Slots
<1>4. Cardinality(Slots(Pollers, toRequest'))
        = Cardinality(Slots(Pollers \ {p}, toRequest')) + toRequest'[p]
  BY <1>2, PoolAssumption, SlotsSplit
<1>5. Reserved' = Cardinality(rest) + n
  BY <1>2, <1>3, <1>4 DEF Reserved, Slots
<1>6. Cardinality(rest) \in Nat
  BY <1>1, FS_CardinalityType
<1> QED BY <1>1, <1>5, <1>6

\* What one poller holds is part of what they all hold.
LEMMA ReservedBounds ==
  ASSUME toRequest \in [Pollers -> Nat]
  PROVE  /\ Reserved \in Nat
         /\ \A p \in Pollers : toRequest[p] <= Reserved
<1>1. Reserved \in Nat
  BY PoolAssumption, SlotsFinite, FS_CardinalityType, ReservedSlots
<1>2. ASSUME NEW p \in Pollers PROVE toRequest[p] <= Reserved
  <2> DEFINE rest == Slots(Pollers \ {p}, toRequest)
  <2>1. /\ IsFiniteSet(rest)
        /\ Reserved = Cardinality(rest) + toRequest[p]
    BY PoolAssumption, SlotsSplit, ReservedSlots
  <2>2. Cardinality(rest) \in Nat
    BY <2>1, FS_CardinalityType
  <2> QED BY <2>1, <2>2
<1> QED BY <1>1, <1>2

\* An executor that takes a step, or lets go of one.
LEMMA BusyCount ==
  ASSUME Shape
  PROVE  IsFiniteSet(Busy) /\ Cardinality(Busy) \in Nat
<1>1. Busy \in SUBSET Executors
  BY DEF Busy
<1>2. IsFiniteSet(Busy)
  BY <1>1, PoolAssumption, FS_Subset
<1> QED BY <1>2, FS_CardinalityType

\* Unused slots go back to the idle executors, and the others to the queue.
LEMMA Sums ==
  ASSUME NEW idle \in Int, NEW reserved \in Int, NEW queued \in Int,
         NEW busy \in Int, NEW total \in Int, NEW slots \in Int, NEW got \in Int,
         idle + reserved + queued + busy = total
  PROVE  (idle + (slots - got)) + (reserved - slots) + (queued + got) + busy
           = total
OBVIOUS

\* What one thread gives another gets.
LEMMA Balance ==
  ASSUME NEW i \in Nat, NEW r \in Nat, NEW l \in Nat, NEW b \in Nat,
         NEW total \in Nat, NEW n \in Nat, i + r + l + b = total
  PROVE  /\ (i - n) + (r + n) + l + b = total
         /\ (i + n) + (r - n) + l + b = total
         /\ i + r + (l - 1) + (b + 1) = total
         /\ (i + 1) + r + l + (b - 1) = total
OBVIOUS

LEMMA ConservationStep ==
  ASSUME ThreadsInv, SlotConservation, [Next]_vars
  PROVE  SlotConservation'
<1> USE PoolAssumption DEF mainVars, pollerVars, executorVars
<1>0. Shape /\ PollersHold /\ ExecutorsHold /\ Joined
  BY DEF ThreadsInv
<1>1. /\ idleExecutors \in Nat /\ carried \in Nat /\ ThreadCount \in Nat
      /\ Len(workQueue) \in Nat
      /\ \A p \in Pollers : /\ toRequest[p] \in Nat /\ Len(response[p]) \in Nat
                            /\ response[p] \in Seq(StepIds)
  BY <1>0, FS_CardinalityType, LenProperties DEF Shape, ThreadCount
<1>2. Reserved \in Nat /\ IsFiniteSet(Busy) /\ Cardinality(Busy) \in Nat
  BY <1>0, ReservedBounds, BusyCount DEF Shape
<1>3. idleExecutors + Reserved + Len(workQueue) + Cardinality(Busy)
        = ThreadCount + carried
  BY DEF SlotConservation
<1> DEFINE Balanced(n) ==
      /\ (idleExecutors - n) + (Reserved + n) + Len(workQueue) + Cardinality(Busy)
           = ThreadCount + carried
      /\ (idleExecutors + n) + (Reserved - n) + Len(workQueue) + Cardinality(Busy)
           = ThreadCount + carried
      /\ idleExecutors + Reserved + (Len(workQueue) - 1) + (Cardinality(Busy) + 1)
           = ThreadCount + carried
      /\ (idleExecutors + 1) + Reserved + Len(workQueue) + (Cardinality(Busy) - 1)
           = ThreadCount + carried
<1>b. ASSUME NEW n \in Nat PROVE Balanced(n)
  <2>1. ThreadCount + carried \in Nat
    BY <1>1
  <2> QED BY <1>1, <1>2, <1>3, <2>1, Balance
<1>4. ASSUME UNCHANGED <<idleExecutors, toRequest, workQueue, carried>>,
             Busy' = Busy
      PROVE  SlotConservation'
  BY <1>3, <1>4 DEF SlotConservation, Reserved
<1>5. CASE Start
  <2>1. \A p \in Pollers : toRequest[p] = 0
    BY <1>0, <1>5 DEF Start, Joined, PollersHold
  <2>2. Reserved' = 0
    <3>1. UNION {{p} \X (1..toRequest'[p]) : p \in Pollers} = {}
      BY <1>5, <2>1 DEF Start
    <3> QED BY <3>1, FS_EmptySet DEF Reserved
  <2>3. Cardinality(Busy') = 0
    <3>1. Busy' = {}
      BY <1>5 DEF Start, Busy
    <3> QED BY <3>1, FS_EmptySet
  <2>4. /\ idleExecutors' = ThreadCount /\ workQueue' = workQueue
        /\ carried' = Len(workQueue)
    BY <1>5 DEF Start
  <2>5. Len(workQueue') = Len(workQueue)
    BY <2>4
  <2>6. idleExecutors' + Reserved' + Len(workQueue') + Cardinality(Busy')
          = ThreadCount + carried'
    BY <1>1, <2>2, <2>3, <2>4, <2>5
  <2> QED BY <2>6 DEF SlotConservation
<1>6. CASE Stop \/ StopStep
  <2>1. Busy' = Busy
    BY <1>0, <1>6 DEF Stop, StopStep, NotifyAll, JoinPollers, JoinExecutors,
                      WokenExecutors, Busy, Shape
  <2>2. UNCHANGED <<idleExecutors, toRequest, workQueue, carried>>
    BY <1>6 DEF Stop, StopStep, NotifyAll, JoinPollers, JoinExecutors
  <2> QED BY <1>4, <2>1, <2>2
<1>7. ASSUME NEW p \in Pollers, ReserveSlots(p)
      PROVE  SlotConservation'
  <2>1. UNCHANGED <<workQueue, carried, executor>>
    BY <1>7 DEF ReserveSlots
  <2>2. Busy' = Busy
    BY <2>1 DEF Busy
  <2>3. CASE UNCHANGED <<idleExecutors, toRequest>>
    BY <1>4, <2>1, <2>2, <2>3
  <2> DEFINE n == Min({idleExecutors, MaxResultsPerPoll})
  <2>4. CASE /\ poller[p] = "reserve"
             /\ toRequest' = [toRequest EXCEPT ![p] = n]
             /\ idleExecutors' = idleExecutors - n
    <3>1. n \in Nat
      <4>1. idleExecutors \in Int /\ MaxResultsPerPoll \in Int
        BY <1>1
      <4>2. n \in {idleExecutors, MaxResultsPerPoll}
        BY <4>1, MinOfTwo
      <4> QED BY <1>1, <4>2
    <3> HIDE DEF n
    <3>2. toRequest[p] = 0
      BY <1>0, <2>4 DEF PollersHold
    <3>3. Reserved' = Reserved + n
      <4>1. Reserved' = Reserved - toRequest[p] + n
        BY <1>0, <2>4, <3>1, ReservedChanges DEF Shape
      <4> QED BY <1>2, <3>1, <3>2, <4>1
    <3>4. idleExecutors' + Reserved' + Len(workQueue) + Cardinality(Busy)
            = ThreadCount + carried
      BY <1>b, <2>4, <3>1, <3>3
    <3> QED BY <2>1, <2>2, <3>4 DEF SlotConservation
  <2> QED BY <1>7, <2>3, <2>4 DEF ReserveSlots
<1>8. ASSUME NEW p \in Pollers, QueueSteps(p)
      PROVE  SlotConservation'
  <2>1. /\ idleExecutors' = idleExecutors + (toRequest[p] - Len(response[p]))
        /\ workQueue' = workQueue \o response[p]
        /\ toRequest' = [toRequest EXCEPT ![p] = 0]
        /\ UNCHANGED carried
        /\ executor' = executor \/ executor' = WokenExecutors
    BY <1>8 DEF QueueSteps, UnusedSlots
  <2>2. Busy' = Busy
    BY <1>0, <2>1 DEF WokenExecutors, Busy, Shape
  <2>3. Len(workQueue') = Len(workQueue) + Len(response[p])
    BY <1>0, <1>1, <2>1, ConcatProperties DEF Shape
  <2>4. Reserved' = Reserved - toRequest[p]
    <3>1. 0 \in Nat /\ toRequest \in [Pollers -> Nat]
      BY <1>0 DEF Shape
    <3>2. Reserved' = Reserved - toRequest[p] + 0
      BY <2>1, <3>1, ReservedChanges
    <3> QED BY <1>1, <1>2, <3>2
  <2>5. idleExecutors' + Reserved' + Len(workQueue') + Cardinality(Busy)
          = ThreadCount + carried
    <3>1. /\ toRequest[p] \in Nat /\ Len(response[p]) \in Nat
          /\ idleExecutors \in Nat /\ Len(workQueue) \in Nat
          /\ carried \in Nat /\ ThreadCount \in Nat
      BY <1>1
    <3>2. idleExecutors' = idleExecutors + (toRequest[p] - Len(response[p]))
      BY <2>1
    <3>3. Reserved \in Nat /\ Cardinality(Busy) \in Nat
      BY <1>2
    <3>4. ThreadCount + carried \in Int
      BY <3>1
    <3>5. (idleExecutors + (toRequest[p] - Len(response[p])))
            + (Reserved - toRequest[p])
            + (Len(workQueue) + Len(response[p])) + Cardinality(Busy)
            = ThreadCount + carried
      BY <1>3, <3>1, <3>3, <3>4, Sums
    <3> QED BY <2>3, <2>4, <3>2, <3>5
  <2> QED BY <2>1, <2>2, <2>5 DEF SlotConservation
<1>9. ASSUME NEW p \in Pollers, GiveBackSlots(p)
      PROVE  SlotConservation'
  <2>1. /\ idleExecutors' = idleExecutors + toRequest[p]
        /\ toRequest' = [toRequest EXCEPT ![p] = 0]
        /\ UNCHANGED <<workQueue, carried, executor>>
    BY <1>9 DEF GiveBackSlots
  <2>2. Busy' = Busy
    BY <2>1 DEF Busy
  <2>3. Reserved' = Reserved - toRequest[p]
    <3>1. 0 \in Nat /\ toRequest \in [Pollers -> Nat]
      BY <1>0 DEF Shape
    <3>2. Reserved' = Reserved - toRequest[p] + 0
      BY <2>1, <3>1, ReservedChanges
    <3> QED BY <1>1, <1>2, <3>2
  <2>4. idleExecutors' + Reserved' + Len(workQueue) + Cardinality(Busy)
          = ThreadCount + carried
    <3>1. toRequest[p] \in Nat
      BY <1>1
    <3> QED BY <1>b, <2>1, <2>3, <3>1
  <2> QED BY <2>1, <2>2, <2>4 DEF SlotConservation
<1>10. ASSUME NEW p \in Pollers, PollerStep(p) \/ PollIntervalElapses(p)
       PROVE  SlotConservation'
  <2>1. \/ ReserveSlots(p) \/ QueueSteps(p) \/ GiveBackSlots(p)
        \/ UNCHANGED <<idleExecutors, toRequest, workQueue, carried, executor>>
    BY <1>10 DEF PollerStep, PollerHead, NextDefinition, Poll, PollReturns,
                 EndCycle, PollerWakes, PollIntervalElapses
  <2>2. UNCHANGED executor => Busy' = Busy
    BY DEF Busy
  <2> QED BY <1>4, <1>7, <1>8, <1>9, <2>1, <2>2
<1>11. ASSUME NEW x \in Executors, TakeStep(x)
       PROVE  SlotConservation'
  <2>1. /\ executor[x] = "ready" /\ workQueue # <<>>
        /\ workQueue' = Tail(workQueue)
        /\ executor'[x] \in {"handling", "report"}
        /\ \A y \in Executors \ {x} : executor'[y] = executor[y]
        /\ UNCHANGED <<idleExecutors, toRequest, carried>>
    BY <1>0, <1>11 DEF TakeStep, Shape
  <2>2. Busy' = Busy \cup {x} /\ x \notin Busy
    BY <2>1 DEF Busy
  <2>3. Cardinality(Busy') = Cardinality(Busy) + 1
    BY <1>2, <2>2, FS_AddElement
  <2>4. Len(workQueue') = Len(workQueue) - 1
    BY <1>0, <2>1, HeadTailProperties DEF Shape
  <2>5. idleExecutors + Reserved + Len(workQueue') + Cardinality(Busy')
          = ThreadCount + carried
    BY <1>b, <2>3, <2>4
  <2> QED BY <2>1, <2>5 DEF SlotConservation, Reserved
<1>12. ASSUME NEW x \in Executors, ReleaseSlot(x)
       PROVE  SlotConservation'
  <2>1. /\ executor[x] = "release"
        /\ executor' = [executor EXCEPT ![x] = "ready"]
        /\ idleExecutors' = idleExecutors + 1
        /\ UNCHANGED <<workQueue, toRequest, carried>>
    BY <1>12 DEF ReleaseSlot
  <2>2. Busy' = Busy \ {x} /\ x \in Busy
    BY <1>0, <2>1 DEF Busy, Shape
  <2>3. Cardinality(Busy') = Cardinality(Busy) - 1
    BY <1>2, <2>2, FS_RemoveElement
  <2>4. idleExecutors' + Reserved + Len(workQueue) + Cardinality(Busy')
          = ThreadCount + carried
    BY <1>b, <2>1, <2>3
  <2> QED BY <2>1, <2>4 DEF SlotConservation, Reserved
<1>13. ASSUME NEW x \in Executors, ExecutorStep(x) \/ KeepAliveStep(x)
       PROVE  SlotConservation'
  <2>1. CASE TakeStep(x) \/ ReleaseSlot(x)
    BY <1>11, <1>12, <2>1
  <2>2. CASE ~(TakeStep(x) \/ ReleaseSlot(x))
    <3>1. UNCHANGED <<idleExecutors, toRequest, workQueue, carried>>
      BY <1>13, <2>2
         DEF ExecutorStep, KeepAliveStep, SleepOrExit, HandlerEnds,
             JoinKeepAlive, Report, ReportReturns, PingDue, Ping, PingReturns
    <3>2. /\ executor'[x] \in {"handling", "joining", "report", "calling",
                               "release"}
               <=> executor[x] \in {"handling", "joining", "report", "calling",
                                    "release"}
          /\ \A y \in Executors \ {x} : executor'[y] = executor[y]
      BY <1>0, <1>13, <2>2
         DEF ExecutorStep, KeepAliveStep, SleepOrExit, HandlerEnds,
             JoinKeepAlive, Report, ReportReturns, PingDue, Ping, PingReturns,
             Shape
    <3>3. Busy' = Busy
      BY <3>2 DEF Busy
    <3> QED BY <1>4, <3>1, <3>3
  <2> QED BY <2>1, <2>2
<1>14. CASE UNCHANGED vars
  <2>1. Busy' = Busy
    BY <1>14 DEF vars, Busy
  <2> QED BY <1>4, <1>14, <2>1 DEF vars
<1> QED BY <1>5, <1>6, <1>10, <1>13, <1>14 DEF Next

\* However polls and runs end, and however many pollers reserve at once: the
\* slots the pool has idle, reserved, promised and busy are its executors, so
\* it claims no more steps than it has executors to run.  Steps a stopped pool
\* left in its queue are the one exception, and are counted.
THEOREM SlotsConserved == Spec => []SlotConservation
<1>1. Init => SlotConservation
  <2> SUFFICES ASSUME Init PROVE SlotConservation
    OBVIOUS
  <2>1. ThreadCount \in Nat
    BY PoolAssumption, FS_CardinalityType DEF ThreadCount
  <2>2. Reserved = 0
    <3>1. UNION {{p} \X (1..toRequest[p]) : p \in Pollers} = {}
      BY DEF Init
    <3> QED BY <3>1, FS_EmptySet DEF Reserved
  <2>3. Cardinality(Busy) = 0
    <3>1. Busy = {}
      BY DEF Init, Busy
    <3> QED BY <3>1, FS_EmptySet
  <2>4. /\ idleExecutors = ThreadCount /\ carried = 0 /\ Len(workQueue) = 0
    BY EmptySeq DEF Init
  <2> QED BY <2>1, <2>2, <2>3, <2>4 DEF SlotConservation
<1>2. ThreadsInv /\ SlotConservation /\ [Next]_vars => SlotConservation'
  BY ConservationStep
<1> QED BY <1>1, <1>2, ThreadsInvariant, PTL DEF Spec

-----------------------------------------------------------------------------
(* The bounds of the type invariant.                                       *)

\* Distinct steps in the queue are no more than the steps there are.
LEMMA QueueBounded ==
  ASSUME Shape, QueueApart
  PROVE  Len(workQueue) \in 0..MaxSteps
<1>1. Len(workQueue) \in Nat /\ workQueue \in [1..Len(workQueue) -> StepIds]
  BY LenProperties DEF Shape
<1>2. IsFiniteSet(StepIds) /\ Cardinality(StepIds) = MaxSteps
  BY PoolAssumption, FS_Interval DEF StepIds
<1>3. workQueue \in Injection(1..Len(workQueue), StepIds)
  BY <1>1 DEF QueueApart, Injection
<1>4. Cardinality(1..Len(workQueue)) <= Cardinality(StepIds)
  BY <1>2, <1>3, FS_Injection
<1>5. Cardinality(1..Len(workQueue)) = Len(workQueue)
  BY <1>1, FS_Interval
<1> QED BY <1>1, <1>2, <1>4, <1>5, PoolAssumption

LEMMA CarriedBounded == Spec => [](carried \in 0..MaxSteps)
<1>1. Init => carried \in 0..MaxSteps
  BY PoolAssumption DEF Init
<1>2. ThreadsInv /\ StepsApart /\ carried \in 0..MaxSteps /\ [Next]_vars
        => (carried \in 0..MaxSteps)'
  <2> SUFFICES ASSUME ThreadsInv, StepsApart, carried \in 0..MaxSteps,
                      [Next]_vars
               PROVE  carried' \in 0..MaxSteps
    OBVIOUS
  <2>1. carried' = carried \/ carried' = Len(workQueue)
    BY DEF Next, Start, Stop, StopStep, NotifyAll, JoinPollers, JoinExecutors,
           PollerStep, PollerHead, NextDefinition, ReserveSlots, Poll,
           PollReturns, QueueSteps, GiveBackSlots, EndCycle, PollerWakes,
           PollIntervalElapses, ExecutorStep, TakeStep, SleepOrExit,
           HandlerEnds, JoinKeepAlive, Report, ReportReturns, ReleaseSlot,
           KeepAliveStep, PingDue, Ping, PingReturns, vars, mainVars
  <2>2. Len(workQueue) \in 0..MaxSteps
    BY QueueBounded DEF ThreadsInv, StepsApart
  <2> QED BY <2>1, <2>2
<1> QED BY <1>1, <1>2, ThreadsInvariant, ApartInvariant, PTL DEF Spec

\* Every variable stays in the range the header of WorkflowWorkerPool gives it,
\* the idle count and each poller's reservation between zero and the slots.
THEOREM PoolTypeCorrect == Spec => []TypeOK
<1>1. ThreadsInv /\ SlotConservation /\ carried \in 0..MaxSteps => TypeOK
  <2> SUFFICES ASSUME ThreadsInv, SlotConservation, carried \in 0..MaxSteps
               PROVE  TypeOK
    OBVIOUS
  <2>0. Shape
    BY DEF ThreadsInv
  <2>1. /\ ThreadCount \in Nat /\ idleExecutors \in Nat /\ carried \in Nat
        /\ Len(workQueue) \in Nat
    BY <2>0, PoolAssumption, FS_CardinalityType, LenProperties
       DEF ThreadCount, Shape
  <2>2. /\ Reserved \in Nat /\ Cardinality(Busy) \in Nat
        /\ \A p \in Pollers : toRequest[p] <= Reserved
    BY <2>0, ReservedBounds, BusyCount DEF Shape
  <2>3. idleExecutors + Reserved + Len(workQueue) + Cardinality(Busy)
          = ThreadCount + carried
    BY DEF SlotConservation
  <2>4. /\ idleExecutors <= ThreadCount + carried
        /\ Reserved <= ThreadCount + carried
    BY <2>1, <2>2, <2>3
  <2>5. idleExecutors \in 0..(ThreadCount + carried)
    BY <2>1, <2>4
  <2>6. toRequest \in [Pollers -> 0..(ThreadCount + carried)]
    <3>1. ASSUME NEW p \in Pollers
          PROVE  toRequest[p] \in 0..(ThreadCount + carried)
      <4>1. toRequest[p] \in Nat /\ toRequest[p] <= Reserved
        BY <2>0, <2>2 DEF Shape
      <4> QED BY <2>1, <2>2, <2>4, <4>1
    <3> QED BY <2>0, <3>1 DEF Shape
  <2> QED BY <2>0, <2>5, <2>6 DEF Shape, TypeOK
<1> QED BY <1>1, ThreadsInvariant, SlotsConserved, CarriedBounded, PTL

=============================================================================
