SPECIFICATION ReclaimSpec
CONSTANTS
  HpThread = {t1, t2}
  HpNode = {p1, p2, p3}
  NoNode = NoNode
  Payload = {a, b}
  NoPayload = NoPayload
  MaxTag = 5
  RcuThread = {t1, t2, t3}
  RcuWriter = {t1, t2}
  Object = {o1, o2}
  NoObject = NoObject
  kRcuReclaimThreshold = 1
  MaxCtr = 1
SYMMETRY ReclaimSymmetry
CONSTRAINT DistinctPayloads
INVARIANTS
  HazardNoUseAfterFree HazardStackOneOwner GracePeriodRespected
PROPERTIES
  MsQueueIsFifo
CHECK_DEADLOCK FALSE
