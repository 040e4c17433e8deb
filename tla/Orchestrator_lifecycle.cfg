SPECIFICATION Spec
CONSTANTS
  w1 = w1
  w2 = w2
  a = a
  b = b
  Executions = {e1, e2}
  Workflows = {w1, w2}
  StepNames = {a, b}
  Workers = {x, y}
  Inputs = {i}
  Definitions <- StableDefinitions
  MaxAttempt = 1
  Delays = {}
  MaxBatch = 2
  MaxTime = 2
  MaxClockLag = 0
  None = None
SYMMETRY Symmetry
CHECK_DEADLOCK FALSE
INVARIANTS TypeOK OneActiveStep RetriesExhausted SingletonExclusive
PROPERTIES LifecycleSpec LiveLeaseRespected
