SPECIFICATION Spec
CONSTANTS
  NoElem = NoElem
  Producers = {p1, p2}
  Consumers = {c1, c2}
  Observers = {o1}
  Values = {x, y}
  Q_SIZE = 3
  MaxWrites = 3
SYMMETRY ThreadSymmetry
INVARIANTS IInv FifoDelivery CountsHonest
PROPERTY ImplementsFifo
