SPECIFICATION Spec
CONSTANTS
  w1 = w1
  w2 = w2
  w3 = w3
  f1 = f1
  f2 = f2
  f3 = f3
  text = text
  title = title
  Workers = {w1, w2, w3}
  Files = {f1, f2, f3}
  Columns = {text, title}
  InitialColumns = {text}
  Job <- SameBatch
  StoreKind = "conditional"
  Remote = TRUE
  MAX_RETRIES = 2
  MaxRuns = 1
INVARIANTS
  NoDuplicateBatch
  NoDanglingReference
  OkMeansCommitted
  
PROPERTIES
  AppendOnly
  ImplementsLog
  EveryRunEnds
CHECK_DEADLOCK FALSE
