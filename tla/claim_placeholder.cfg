SPECIFICATION Spec
SYMMETRY Symmetry
CONSTANTS
  Commands = {c1, c2}
  None = None
  Empty = Empty
  Torn = Torn
  Options = {}
  Networks = {"Pasta"}
  Sizes = {}
  NoSize = NoSize
  Hardware = {}
  BlockDevices = {disk}
  CharDevices = {tty}
  OtherFiles = {}
CONSTRAINT Serial
CHECK_DEADLOCK FALSE
INVARIANT PlaceholderThere
