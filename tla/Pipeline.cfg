SPECIFICATION Spec
CONSTANTS
  a = a
  b = b
  c = c
  IndexedFiles = {a, b}
  UnindexedFiles = {c}
  Work <- Mixed
  Capacity = 1
  MaxIoTasks = 2
  MaxCpu = 2
  TargetBatchSize = 2
  Queries <- PassQueries
  Faults = {"read", "footer", "concat"}
INVARIANTS
  PipelineTypeOK
  EveryMatchOnce
  NoErrorSwallowed
  LimitFilled
  StatsMatchRows
PROPERTIES
  ClientIsAnswered
  EveryTaskEnds
CHECK_DEADLOCK FALSE
