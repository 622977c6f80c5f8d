CONSTANTS
  P = 3
  Kind <- UpdateKind
  Version = 3
  Environment = {"stop"}
SPECIFICATION FairSpec
PROPERTIES Settles ManifestFinal
CHECK_DEADLOCK FALSE
