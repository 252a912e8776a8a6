SPECIFICATION LifecycleSpec
CONSTANTS
  w1 = w1
  w2 = w2
  c1 = c1
  c2 = c2
  f1 = f1
  f2 = f2
  text = text
  title = title
  Workers = {w1, w2}
  Creators = {c2}
  Files = {f1, f2}
  Columns = {text, title}
  InitialColumns = {text}
  Job <- MCJob
  ColumnsOf <- MCColumnsOf
  StoreKind = "conditional"
  Remote = TRUE
  MAX_RETRIES = 2
  MaxCreates = 2
  MaxVersions = 1
  MaxRuns = 1
PROPERTIES
  TableNeverReplaced
CHECK_DEADLOCK FALSE
