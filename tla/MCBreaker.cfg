SPECIFICATION Spec
CONSTANTS
  Callers = {c1, c2, c3, c4, c5}
  Slots = 2
  MaxWait = 3
  Threshold = 2
  Cooldown = 3
  Timeout = 2
INVARIANTS
  TypeOK
  NothingLeaks
  StayIsBounded
  TrippedMeansRest
SYMMETRY Symmetric
