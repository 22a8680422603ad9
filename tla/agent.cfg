SPECIFICATION FairSpec
CONSTANTS
  Clients = {c1, c2}
  Own = Own
  Attached = {k1}
  Foreign = Foreign
CHECK_DEADLOCK FALSE
INVARIANTS TypeOK GrantsConsented KeysServed TasksRun
PROPERTIES ConsentsAreKept LocksWithoutUser ListsWithoutUser
