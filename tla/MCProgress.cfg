SPECIFICATION FairSpec
CONSTANTS
  e1 = e1
  e2 = e2
  e3 = e3
  ann = ann
  maths = maths
  art = art
  Req = {e1, e2, e3}
  Sheet = {ann}
  Subject = {maths, art}
  Calls <- MCCalls
  None = None
INVARIANTS
  RemarkReadAfterEarlierScores
  ScoreAndRemarkTogether
  CreatedOnceForGood
PROPERTIES
  EveryRequestAnswered
