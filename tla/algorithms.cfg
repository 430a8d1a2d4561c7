SPECIFICATION AlgorithmsSpec
CONSTANTS
  Worlds = {1, 2, 3, 4}
  Counts = {3, 4}
  SocketBuffers = {0, 9}
  MoeRows <- RowsPerRank
  MoeBuffers = {0}
  Coroutine = {c1, c2, c3}
  AwaitsEvent = c1
  MaxLocks = 2
  MeshSize = 4
  GpThread = {1, 2, 3, 4}
  GpCapacity = 2
  MaxAcquires = 2
  MaxVersion = 3
  ShardSizes = {0, 1, 2}
  SeqId = {s1, s2}
  MaxBlocks = 3
  BlockSize = 2
  MaxValues = 4
  TensorSizes = {1, 2}
  ArenaSize = 9
  Vocab = {1, 2, 3}
  DraftLens = {1, 3}
  MaxContext = 5
  LeafValues <- TwoLeaves
  MaxNodes = 5
  Node = {n1, n2, n3}
  Initiator = n1
  Balance = 1
  MaxTransfers = 2
INVARIANTS
  CollectiveCompletes  MeshCompletes CoExclusion CoNeverStuck WakeUpsSuffice
  RestoredWhole BlocksConserved   GradIsDerivative
PROPERTIES
  SnapshotAtWorkCompletes
CHECK_DEADLOCK FALSE
