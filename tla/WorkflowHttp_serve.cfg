SPECIFICATION HttpSpec
CONSTANTS
  w1 = w1
  a = a
  b = b
  Executions = {e1}
  Workflows = {w1}
  StepNames = {a, b}
  Workers = {x}
  Inputs = {i}
  Definitions <- Changing
  MaxAttempt = 0
  Delays = {}
  MaxBatch = 1
  MaxTime = 1
  MaxClockLag = 0
  Callers = {c1, c2}
  None = None
INVARIANTS HttpTypeOK TransportsAgree ExitStatusTruthful NothingUsedOnceDestroyed
PROPERTIES SignalEndsServe EveryCallEnds
CHECK_DEADLOCK FALSE
