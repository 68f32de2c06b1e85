SPECIFICATION Spec
CONSTANTS
  p1 = p1
  p2 = p2
  p3 = p3
  Run = {r1, r2, r3}
  Phones <- MCPhones
  Roles <- MCRoles
  None = None
CHECK_DEADLOCK FALSE
INVARIANTS
  CompletedSeedIsWhole
  SeedsMixOnlyByHand
  ReseedingNeedsCleanUp
