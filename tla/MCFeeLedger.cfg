SPECIFICATION FairSpec
CONSTANTS
  Req = {p, q, w}
  Row = {row}
  Missing = Missing
  BadBody = BadBody
  Seed = Seed
  None = None
INVARIANTS
  TypeOK
  RowsCoherent
  PaymentOverwrittenOnlyByOverlap
  AnswersTellTheOutcome
PROPERTIES
  EveryRequestAnswered
