SPECIFICATION Spec
CONSTANTS
  a = a
  b = b
  c = c
  IndexedFiles = {a, b}
  UnindexedFiles = {c}
  Work <- Mixed
  Capacity = 1
  MaxIoTasks = 2
  MaxCpu = 1
  TargetBatchSize = 2
  Queries <- JustStreamedLimit
  Faults = {}
INVARIANTS
  LimitIsMaximum
CHECK_DEADLOCK FALSE
