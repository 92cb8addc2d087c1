SPECIFICATION Spec
CONSTANTS
  w1 = w1
  w2 = w2
  p1 = p1
  p2 = p2
  k1 = k1
  c1 = c1
  NoWorker = NoWorker
  NoKey = NoKey
  NoChain = NoChain
  AnyProject = AnyProject
  Workers <- MCWorkers
  Requests <- MCFewRequests
  WorkerProject <- MCWorkerProject
  HandledKinds <- MCHandledKinds
  KindLimits <- MCKindLimits
  LockTicks = 2
  RetryTicks = 1
  BeatFloor = 1
  MaxJobs = 2
  FallbackMax = 1
  MaxCrashes = 1
  MaxLapses = 1
  MaxRetries = 0
PROPERTY
  EveryJobSettles
CHECK_DEADLOCK FALSE
