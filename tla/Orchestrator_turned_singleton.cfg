SPECIFICATION Spec
CONSTANTS
  w1 = w1
  w2 = w2
  a = a
  b = b
  Executions = {e1, e2}
  Workflows = {w1}
  StepNames = {a, b}
  Workers = {x}
  Inputs = {i}
  Definitions <- TurnedSingleton
  MaxAttempt = 0
  Delays = {}
  MaxBatch = 1
  MaxTime = 1
  MaxClockLag = 0
  None = None

CHECK_DEADLOCK FALSE
INVARIANTS
  SingletonExclusive
