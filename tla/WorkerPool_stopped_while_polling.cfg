SPECIFICATION Spec
CONSTANTS
  x1 = x1
  x2 = x2
  p1 = p1
  p2 = p2
  d1 = d1
  None = None
  Pollers = {p1, p2}
  Executors = {x1, x2}
  DefinitionsOf <- IdlePoller
  MaxResultsPerPoll = 2
  MaxSteps = 2
  MaxStarts = 1
INVARIANT NothingAbandoned
CHECK_DEADLOCK FALSE
