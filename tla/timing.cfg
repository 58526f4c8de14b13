SPECIFICATION Spec
CONSTANTS
  Lease = 60
  Beat = 20
  Timeout = 48
  MinIdle = 60
  RedisMax = 1
  StoreMax = 2
  PermitMax = 1
  Interval = 20
  WriteMax = 1
INVARIANTS
  TimingInv
  LeaseOutlivesJob
  
  RunningIsShown
