SPECIFICATION TransactionSpec
CONSTANTS
  w1 = w1
  a = a
  Executions = {e1, e2}
  Workflows = {w1}
  StepNames = {a}
  Workers = {x}
  Inputs = {i}
  Definitions <- Changing
  MaxAttempt = 1
  Delays = {}
  MaxBatch = 1
  MaxTime = 2
  MaxClockLag = 2
  MaxLagBeside = 0
  None = None
SYMMETRY Symmetry
INVARIANTS TransactionTypeOK OneActiveStep
PROPERTIES AtomicSpec TerminalFrozen
CHECK_DEADLOCK FALSE
