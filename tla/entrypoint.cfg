SPECIFICATION FairSpec
CONSTANTS
  Sessions = {s1, s2}
  Jobs = {j1, j2}
  One = One
CHECK_DEADLOCK FALSE
INVARIANTS TypeOK WaitKept HomePrepared SetUpOnce EntrypointsRun
PROPERTIES EndsAfterShell EndsWithLastProcess
