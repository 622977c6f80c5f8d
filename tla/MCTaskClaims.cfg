CONSTANTS
  c1 = c1
  c2 = c2
  alice = alice
  bob = bob
  s1 = s1
  t1 = t1
  Nobody = Nobody
  Callers = {c1, c2}
  Calls <- SomeCalls
  TTL = 1
  MaxTime = 2
  MaxCalls = 3
  MaxInodes = 2
SPECIFICATION Spec
SYMMETRY CallerSymmetry
INVARIANTS
  TypeOK
  OneActive
  ReportedKept
PROPERTIES
  AtomicCalls
  EndedFinal
CHECK_DEADLOCK FALSE
