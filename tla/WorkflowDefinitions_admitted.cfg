SPECIFICATION Spec
CONSTANTS
  wf = wf
  a = a
  b = b
  bad = bad
  f = f
  Documents <- AllDocuments
  Names = {wf, a, b, bad}
  ValidNames = {wf, a, b}
  EmptyName = EmptyName
  Fields = {f}
  Malformed = Malformed
  IntLimit = 128
  LongLimit = 262144
  Wrong = Wrong
  None = None
INVARIANTS TypeOK LetInAsAssumed LeaseNeverTooLong AnsweredAsStored
  ReadBackAsAnswered
