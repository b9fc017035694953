SPECIFICATION Spec
CONSTANTS
  Producers = {p1}
  Consumers = {c1, c2}
  MaxNodes = 3
  MaxEnqueues = 4
INVARIANT ReceivesItsItem
CHECK_DEADLOCK FALSE
