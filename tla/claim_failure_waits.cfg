SPECIFICATION Spec
CONSTANTS
  Sessions = {s1, s2}
  Jobs = {j1}
  One = One
CHECK_DEADLOCK FALSE
INVARIANT FailureWaits
