CONSTANTS
  c1 = c1
  c2 = c2
  s1 = s1
  s2 = s2
  s3 = s3
  None = None
  Callers = {c1, c2}
  Ids = {s1, s2, s3}
  Capacity = 2
  Keys = {"identity"}
SPECIFICATION Spec
SYMMETRY Symmetry
INVARIANTS
  TypeOK
  IndexAgrees
PROPERTIES
  SessionsKept
CHECK_DEADLOCK FALSE
