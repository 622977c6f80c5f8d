CONSTANTS
  N = 2
  Kind <- MixedKind
  M = 1
  Home <- MixedHome
  Above <- MixedAbove
  UserVersions = {u1, u2}
  Environment = {"crash", "ioError", "write", "delete", "directory"}
SPECIFICATION Spec
INVARIANTS TypeOK OwnerContentKept JournalCoversTree EvidenceAgrees RolledBackClean
PROPERTIES CommitIsFinal PublicationSpec
SYMMETRY Symmetry
CHECK_DEADLOCK FALSE
