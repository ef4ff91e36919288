\* A fiscal document from its preparation to its invalidation, with two requests
\* at once, a provider whose answers are lost, and every request ending.
CONSTANTS
  p1 = p1 p2 = p2 d1 = d1 d2 = d2 q1 = q1 t1 = t1 t2 = t2 None = None
  Invoice = {1}
  Payment = {}
  Document = {d1, d2}
  Quote = {}
  Txn = {t1, t2}
  Totals = {1}
  Allocations = {}
  Profiles <- OnOrOff
  Stations <- Points
  Ranks <- AsStored
  Replies <- Reply
  MaxAttempts = 2
SPECIFICATION FairSpec
ACTION_CONSTRAINT SettingsMatter
INVARIANTS
  FiscalInv
  OneActiveDocument
  FiscalFollowsDocument
  OneValidDocument
  AnswersKept
PROPERTIES
  EveryRequestEnds
  SubmissionSettles
CHECK_DEADLOCK FALSE
