SPECIFICATION FairPoolSpec
CONSTANTS
  pay1 = pay1
  pay2 = pay2
  leave1 = leave1
  leave2 = leave2
  class = class
  fee = fee
  day = day
  x1 = x1
  x2 = x2
  x3 = x3
  Req = {pay1, pay2, class}
  Conn = {x1, x2}
  Row = {fee, day}
  Script <- MCScript
  RowOf <- MCRowOf
  None = None
PROPERTIES
  AuditNeverStopsARequest
