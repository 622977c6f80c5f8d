CONSTANTS
  s1 = s1
  s2 = s2
  Sources = {s1, s2}
  MaxTransactions = 3
  MaxWaiting = 1
  MaxEvents = 4
SPECIFICATION FairSpec
INVARIANTS
  TypeOK
  PointerSound
  GenerationsVouched
  OneUnresolved
  SettledClean
  RefusalsExplained
PROPERTIES
  ReplacesReviewed
  Settles
  Atomic
CHECK_DEADLOCK FALSE
