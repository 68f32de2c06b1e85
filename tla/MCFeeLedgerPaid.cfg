SPECIFICATION Spec
CONSTANTS
  Req = {p, w}
  Row = {row}
  Missing = Missing
  BadBody = BadBody
  Seed = Seed
  None = None
INVARIANT PaidRowsRejectEverything
