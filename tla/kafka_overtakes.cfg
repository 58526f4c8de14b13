SPECIFICATION Spec
CONSTANTS
  t1 = t1
  t2 = t2
  w1 = w1
  w2 = w2
  Tasks = {t1, t2}
  Workers = {w1, w2}
  MaxAttempts <- OneRetry
  Limits <- OneOrTwo
  MaxFaults = 1
  Partitions = {1, 2}
  PartitionOf <- TwoPartitions
  Prefetch = 2
  Backends = {"kafka"}
INVARIANT InFlightUntilAck
CHECK_DEADLOCK FALSE
