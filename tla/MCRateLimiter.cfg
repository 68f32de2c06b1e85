SPECIFICATION Spec
CONSTANTS
  IP = {a, b}
  Max = 1
  Burst = 1
  Window = 2
  StaleAfter = 4
  CleanupInterval = 4
  MaxClock = 8
INVARIANTS
  TypeOK
  AdmittedWithinBudget
PROPERTIES
  ImplementsTokenBucket
CHECK_DEADLOCK FALSE
