SPECIFICATION WorkerSpec
CONSTANTS
  w1 = w1
  a = a
  x = x
  Executions = {e1}
  Workflows = {w1}
  StepNames = {a}
  Workers = {x, y}
  Inputs = {i, j}
  Definitions <- LongLease
  MaxAttempt = 1
  Delays = {1}
  MaxBatch = 1
  MaxTime = 4
  MaxClockLag = 0
  Threads = {t1, t2}
  IdOf <- OneId
  KeepAliveInterval = 1
  Connections = {c1}
  None = None
SYMMETRY Symmetry
INVARIANTS WorkerTypeOK OnTimeKeepsClaim RetryChain
PROPERTIES LostTaskUntouched
CHECK_DEADLOCK FALSE
