SPECIFICATION Spec
CONSTANTS
  Node = {n1, n2, n3}
  Command = {c1, c2}
  Nobody = Nobody
  MaxTerm = 2
  MaxInFlight = 2
  MaxStops = 0
SYMMETRY NodeCommandSymmetry
CONSTRAINT OneSender
ACTION_CONSTRAINT PromptTicker
INVARIANT ProposeTrueCommitted
CHECK_DEADLOCK FALSE
