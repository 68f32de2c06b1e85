SPECIFICATION FairSpec
CONSTANTS
  batch = batch
  other = other
  submit = submit
  ann = ann
  bob = bob
  form = form
  Student = {ann, bob}
  Class = {form}
  Notifiable = {ann}
  Req = {batch, other, submit}
  Calls <- MCCalls
  NoRow = NoRow
  None = None
INVARIANTS
  LockedRowYieldsOnlyToOverlap
  MessagesErrOnlyByOverlap
  AnswersTellTheOutcome
PROPERTIES
  EveryRequestAnswered
