SPECIFICATION FairServerSpec
CONSTANTS
  admit = admit
  again = again
  other = other
  p1 = p1
  p2 = p2
  n1 = n1
  n2 = n2
  Req = {admit, again, other}
  Calls <- MCCalls
  Phone = {p1, p2}
  Roll = {n1, n2}
  None = None
  MaxStarts = 2
INVARIANTS
  ServerTypeOK
  EveryStudentHasALogin
  
  PasswordReplacedOnlyByOverlap
  AnswersTellTheOutcome
  
PROPERTIES
  EveryRequestAnswered
  ShutdownEnds
