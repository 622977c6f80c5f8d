CONSTANTS
  N = 2
  Kind <- MixedKind
  M = 1
  Home <- MixedHome
  Above <- MixedAbove
  UserVersions = {}
  Environment = {"crash"}
SPECIFICATION Spec
INVARIANTS RecoveryCompletes
CHECK_DEADLOCK FALSE
