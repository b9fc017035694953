SPECIFICATION Spec
CONSTANTS
  Producers = {p1, p2}
  Consumers = {c1, c2}
  MaxNodes = 3
  MaxEnqueues = 4
SYMMETRY ThreadSymmetry
INVARIANTS ClaimsInOrder NodesAccounted
CHECK_DEADLOCK FALSE
