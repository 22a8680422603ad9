SPECIFICATION Spec
CONSTANTS
  Sessions = {s1, s2}
  None = None
  Ghost = Ghost
  Faults = {}
CHECK_DEADLOCK FALSE
INVARIANT OnlyOneDaemon
