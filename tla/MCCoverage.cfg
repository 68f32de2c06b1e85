SPECIFICATION FairSpec
CONSTANTS
  first = first
  second = second
  edit = edit
  ann = ann
  bob = bob
  week = week
  day = day
  trip = trip
  c1 = c1
  c2 = c2
  mon1 = mon1
  Req = {first, second, edit}
  Calls <- MCCalls
  Leave = {week, day, trip}
  Class = {c1, c2}
  Teacher = {ann, bob}
  Slot = {mon1}
  TeacherOf <- MCTeacherOf
  ClassOf <- MCClassOf
  None = None
INVARIANTS
  TypeOK
  VerdictReplacedOnlyByOverlap
  CoverageLostOnlyToTogglesOrOverlap
  ApprovalCoversItsClasses
  AnswersTellTheOutcome
PROPERTIES
  EveryRequestAnswered
