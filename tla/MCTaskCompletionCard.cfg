CONSTANTS
  c1 = c1
  c2 = c2
  t1 = t1
  t2 = t2
  Callers = {c1, c2}
  Tasks = {t1, t2}
  MaxStops = 0
SPECIFICATION Spec
INVARIANTS
  CardKept
SYMMETRY Symmetry
CHECK_DEADLOCK FALSE
