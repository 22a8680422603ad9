SPECIFICATION FairSpec
CONSTANTS
  Sessions = {s1, s2}
  None = None
  Ghost = Ghost
  Faults = {"kill_enter"}
CONSTRAINT Calm
CHECK_DEADLOCK FALSE
PROPERTY StopsWhenAllClose
