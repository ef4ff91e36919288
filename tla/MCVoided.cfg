CONSTANTS
  p1 = p1 p2 = p2 d1 = d1 d2 = d2 q1 = q1 t1 = t1 t2 = t2 None = None
  Invoice = {1}
  Payment = {}
  Document = {d1}
  Quote = {}
  Txn = {t1, t2}
  Totals = {1}
  Allocations = {}
  Profiles <- On
  Stations <- OnePoint
  Ranks <- AsStored
  Replies <- Polite
  MaxAttempts = 1
SPECIFICATION Spec
INVARIANT VoidBlockedByDte
CHECK_DEADLOCK FALSE
