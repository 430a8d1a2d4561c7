SPECIFICATION Spec
CONSTANTS
  Node = {n1, n2, n3}
  Initiator = n1
  Balance = 1
  MaxTransfers = 2
INVARIANTS SnapshotConsistent
CHECK_DEADLOCK FALSE
