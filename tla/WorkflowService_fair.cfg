SPECIFICATION FairServiceSpec
CONSTANTS
  w1 = w1
  a = a
  b = b
  Executions = {e1, e2}
  Workflows = {w1}
  StepNames = {a, b}
  Workers = {x}
  Inputs = {i}
  Definitions <- NoRetries
  MaxAttempt = 0
  Delays = {}
  MaxBatch = 1
  MaxTime = 2
  MaxClockLag = 0
  None = None
INVARIANTS ServiceTypeOK
PROPERTIES QuietOnceGone DestructorReturns LapsedLeaseResolved OldestStepServed
CHECK_DEADLOCK FALSE
