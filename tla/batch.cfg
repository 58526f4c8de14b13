SPECIFICATION Spec
CONSTANTS
  t1 = t1
  t2 = t2
  c1 = c1
  k1 = k1
  w1 = w1
  w2 = w2
  NoKey = NoKey
  Tasks <- ThreeTasks
  Keys <- OneKey
  DedupKey <- KeyedTasks
  MaxAttempts <- OneAttempt
  TerminalErrors <- NoErrors
  RetryableErrors <- NoErrors
  MaxFaults = 1
  Workers = {w1}
  PromoteBatch = 2
  Concurrency = 2
  BatchSize = 2
  ChaosTasks = {c1}
  MaxRequeues = 0
SYMMETRY TaskSymmetry
INVARIANTS
  NoTaskLost
  EnqueueIsIdempotent
CHECK_DEADLOCK FALSE
