SPECIFICATION Spec
CONSTANTS
  Commands = {c1, c2}
  Names = {n1}
  Boxes = {b1}
  Passwords = {"plain", "other"}
  NoPassword = NoPassword
  Old = Old
  Trimmed <- MCTrimmed
  Kills = FALSE
SYMMETRY Symmetry
CHECK_DEADLOCK FALSE
INVARIANT KeysDecryptable
