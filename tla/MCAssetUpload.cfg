SPECIFICATION Spec
CONSTANTS
  sign = sign
  conf1 = conf1
  conf2 = conf2
  del1 = del1
  del2 = del2
  k1 = k1
  k2 = k2
  form = form
  other = other
  Req = {sign, conf1, conf2, del1, del2}
  Calls <- MCCalls
  Key = {k1, k2}
  KeyKind <- MCKeyKind
  KeyClass <- MCKeyClass
  Class = {form, other}
  Unique = FALSE
  None = None
INVARIANTS
  RowsLoseObjectsOnlyToDeletes
  ConfirmedTwiceOnlyByOverlap
  DeletedObjectsReturnOnlyByUpload
  AnswersTellTheOutcome
CHECK_DEADLOCK FALSE
