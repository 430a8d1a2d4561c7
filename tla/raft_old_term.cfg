SPECIFICATION OldTermSpec
CONSTANTS
  Node = {n1, n2, n3}
  Command = {c1, c2, c3}
  Nobody = Nobody
  MaxTerm = 3
  MaxInFlight = 2
  MaxStops = 0
SYMMETRY NodeCommandSymmetry
VIEW SafetyView
CONSTRAINT OneSender
ACTION_CONSTRAINT PromptTicker
INVARIANTS ElectableHoldCommitted
CHECK_DEADLOCK FALSE
