SPECIFICATION Spec
CONSTANTS
  Sessions = {s1, s2}
  None = None
  Ghost = Ghost
  Faults = {"kill_enter", "kill_daemon", "keys", "podman"}
CONSTRAINT OneKindOfRace
SYMMETRY Symmetry
CHECK_DEADLOCK FALSE
INVARIANTS TypeOK UniqueDaemon NoLostWakeup SessionsListed NeverStuck
PROPERTIES SocketKept ExitDecisionSound SharedContainerSpec
