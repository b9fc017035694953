SPECIFICATION FairSpec
\* The program stops when all workers sleep or are gone and no client calls.
CHECK_DEADLOCK FALSE
CONSTANTS
  Workers = {w1, w2}
  Jobs = {j1, j2, j3}
  Nobody = Nobody
INVARIANTS JobsAccounted EnoughAwake ShutdownReachesAll
PROPERTIES QueuedJobRuns ShutdownCompletes
