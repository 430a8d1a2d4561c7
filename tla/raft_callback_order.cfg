SPECIFICATION Spec
CONSTANTS
  Node = {n1, n2, n3}
  Command = {c1, c2}
  Nobody = Nobody
  MaxTerm = 1
  MaxInFlight = 2
  MaxStops = 0
SYMMETRY NodeCommandSymmetry
INVARIANT CallbacksInLogOrder
CHECK_DEADLOCK FALSE
