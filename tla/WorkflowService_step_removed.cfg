SPECIFICATION ServiceSpec
CONSTANTS
  w1 = w1
  a = a
  b = b
  Executions = {e1}
  Workflows = {w1}
  StepNames = {a, b}
  Workers = {x}
  Inputs = {i}
  Definitions <- StepRemoved
  MaxAttempt = 1
  Delays = {}
  MaxBatch = 1
  MaxTime = 3
  MaxClockLag = 0
  None = None
INVARIANT SweepThreadEndsCleanly
CHECK_DEADLOCK FALSE
