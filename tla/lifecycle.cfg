SPECIFICATION Spec
CONSTANTS
  Commands = {c1, c2, c3}
  None = None
  Empty = Empty
  Torn = Torn
  Options = {"expose_kfd"}
  Networks = {"Pasta"}
  Sizes = {"8"}
  NoSize = NoSize
  Hardware = {"/dev/kfd", "/dev/dri"}
  BlockDevices = {disk}
  CharDevices = {tty}
  OtherFiles = {file}
SYMMETRY Symmetry
CHECK_DEADLOCK FALSE
INVARIANTS TypeOK OneOfEach SettingsReadable NodesFaithful SessionsRespected
PROPERTIES BuildDelivers MadeInStages
