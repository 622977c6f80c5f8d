CONSTANTS
  c1 = c1
  c2 = c2
  t1 = t1
  t2 = t2
  Callers = {c1, c2}
  Tasks = {t1, t2}
  MaxStops = 2
SPECIFICATION Spec
INVARIANTS
  TypeOK
  RestAgrees
  ActiveGoesLast
  ReportedKept
SYMMETRY Symmetry
CHECK_DEADLOCK FALSE
