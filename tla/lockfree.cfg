SPECIFICATION LockFreeSpec
CONSTANTS
  Value = {a, b}
  Nothing = Nothing
  N = 2
  MpmcThread = {t1, t2}
  MaxPosition = 4
  SpN = 4
  Owner = t3
  Thief = {t1, t2}
  Item = {a, b}
  NoItem = NoItem
  InitialCap = 1
  MaxBottom = 3
  FlThread = {t1, t2, t3}
  FlCapacity = 2
  MaxFlTag = 5
  Thread = {t1, t2}
  Node = {a, b}
  Null = Null
  MaxEpoch = 2
SYMMETRY LockFreeSymmetry
INVARIANTS
   SlotsPartitioned
PROPERTIES
  MpmcIsFifo MpmcRefusalHasCause SpscIsFifo ChaseLevIsDeque
CHECK_DEADLOCK FALSE
