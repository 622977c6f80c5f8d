CONSTANTS
  P = 3
  Kind <- UpdateKind
  Version = 2
  Environment = {"stop", "tear", "write", "delete"}
SPECIFICATION Spec
INVARIANTS TypeOK AtMostOneAhead TerminalAgree
PROPERTIES StrangersKept OrderedSpec
CHECK_DEADLOCK FALSE
