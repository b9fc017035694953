SPECIFICATION FairSpec
CONSTANTS
  Workers = {w1}
  Waiters = {c1}
  Tasks = {k1}
  Expiring = {}
  MaxStarts = 1
  NoTask = NoTask
PROPERTY StopReleasesWaiters
