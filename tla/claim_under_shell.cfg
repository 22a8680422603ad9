SPECIFICATION Spec
CONSTANTS
  Sessions = {s1, s2}
  None = None
  Ghost = Ghost
  Faults = {}
CONSTRAINT Calm
CHECK_DEADLOCK FALSE
PROPERTY NeverStopsUnderShell
