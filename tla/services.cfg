SPECIFICATION ServicesSpec
CONSTANTS
  ShardLists <- SmallShardLists
  Missing = Missing
  LoaderWorker = {w1, w2}
  WorldSize = 2
  QueueCapacity = 1
  Worker = {w1, w2}
  Roots = 2
  MaxTasks = 3
  BpThread = {b1, b2}
  WindowSize = 2
  MaxUnits = 2
  Backends = 3
  TenantOrder <- ThreeTenants
  Priority <- Priorities
  Weight <- Weights
  Quota <- Quotas
  MaxRuns = 2
  ServiceCaller = {c1, c2}
  MaxId = 3
  AddrWidth = 2
  LenWidth = 2
  MaxTransfers = 1
  Node = {n1, n2}
  Command = {c1, c2}
  Nobody = Nobody
  MaxTerm = 2
  MaxInFlight = 4
  MaxStops = 0
INVARIANTS
  WaitsCoverTasks WindowRespected FirstAnswerWins FairShare
PROPERTIES
  LoaderAtWorkDelivers PoolAtWorkFinishes SendersAtWorkProceed AnyAnswerSuffices
  WaitersReturn TransferEnds AcceptedEventuallyApplied
CHECK_DEADLOCK FALSE
