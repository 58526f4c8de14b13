SPECIFICATION Spec
CONSTANTS
  t1 = t1
  t2 = t2
  c1 = c1
  k1 = k1
  w1 = w1
  w2 = w2
  NoKey = NoKey
  Tasks <- OneTask
  Keys <- OneKey
  DedupKey <- KeyedTasks
  MaxAttempts <- TwoAttempts
  TerminalErrors <- NoErrors
  RetryableErrors <- NoErrors
  MaxFaults = 0
  Workers = {w1, w2}
  PromoteBatch = 1
  Concurrency = 1
  BatchSize = 1
  ChaosTasks = {}
  MaxRequeues = 1
INVARIANTS
  RequeuedAttemptRecorded
CHECK_DEADLOCK FALSE
