CONSTANTS
  N = 2
  Kind <- MixedKind
  M = 1
  Home <- MixedHome
  Above <- MixedAbove
  UserVersions = {}
  Environment = {"crash", "ioError"}
SPECIFICATION FairSpec
PROPERTIES RecoverySettles
CHECK_DEADLOCK FALSE
