SPECIFICATION Spec
CONSTANTS
  Commands = {c1, c2, c3}
  Names = {n1, n2}
  Boxes = {b1}
  Passwords = {"plain", "padded"}
  NoPassword = NoPassword
  Old = Old
  Trimmed <- MCTrimmed
  Kills = TRUE
SYMMETRY Symmetry
CHECK_DEADLOCK FALSE
INVARIANTS TypeOK KeysConsistent CommandsDecrypt DaemonDecryptsAlone ReadableAtRest SerialCommandsStick
PROPERTY CommandsAreAtomic
