SPECIFICATION AdvancedSpec
CONSTANTS
  Thread = {t1, t2, t3}
  Node = {n1, n2, n3}
  Null = Null
  MaxEpoch = 3
SYMMETRY ThreadNodeSymmetry
VIEW PoolView
CONSTRAINT NoneLate
INVARIANTS ProtectedUnlessLate AtMostOneAdvance
CHECK_DEADLOCK FALSE
