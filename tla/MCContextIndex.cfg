CONSTANTS
  w1 = w1
  w2 = w2
  w3 = w3
  Writers = {w1, w2, w3}
  StaleAfter = 1
  MaxTime = 2
SPECIFICATION FairSpec
INVARIANTS
  TypeOK
  TakeoversBounded
  LockHeld
PROPERTIES
  CallsEnd
CHECK_DEADLOCK FALSE
