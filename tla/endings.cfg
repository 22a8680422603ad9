SPECIFICATION FairSpec
CONSTANTS
  Sessions = {s1, s2}
  None = None
  Ghost = Ghost
  Faults = {"kill_enter"}
CONSTRAINT CalmOrOneDaemon
CHECK_DEADLOCK FALSE
INVARIANT NothingLeft
PROPERTIES ContainerStopsAtLast DaemonsExit EnterProceeds
