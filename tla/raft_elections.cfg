SPECIFICATION Spec
CONSTANTS
  Node = {n1, n2, n3}
  Command = {}
  Nobody = Nobody
  MaxTerm = 3
  MaxInFlight = 3
  MaxStops = 1
SYMMETRY NodeSymmetry
INVARIANTS OneLeaderPerTerm
CHECK_DEADLOCK FALSE
