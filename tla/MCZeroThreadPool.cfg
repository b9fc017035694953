SPECIFICATION FairSpec
CONSTANTS
  Workers = {w1, w2}
  Waiters = {c1}
  Tasks = {k1, k2, k3}
  Expiring = {k1}
  MaxStarts = 2
  NoTask = NoTask
INVARIANTS NoLostWakeup StopWaitsForRunning
PROPERTIES StopFreezesQueue QueuedTaskRuns CallsReturn
