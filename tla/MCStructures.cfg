SPECIFICATION Spec
\* The programs come to their ends; the heap and the list when their memory or the clock is used up.
CHECK_DEADLOCK FALSE
CONSTANTS
  n1 = n1
  n2 = n2
  c1 = c1
  c2 = c2
  channel1 = channel1
  channel2 = channel2
  NIL = 9
INVARIANTS
  TypeOK TimersOnTime ContainersIntact 
  DataDelivered 
PROPERTIES KilledWhenSilent NothingDropped
