SPECIFICATION AdvancedSpec
CONSTANTS
  Thread = {t1, t2, t3}
  Node = {n1, n2, n3}
  Null = Null
  MaxEpoch = 2
SYMMETRY ThreadNodeSymmetry
INVARIANTS ReferencesProtected
CHECK_DEADLOCK FALSE
