\* Two payments that spell the ids of their invoices differently deadlock.
CONSTANTS
  p1 = p1 p2 = p2 d1 = d1 d2 = d2 q1 = q1 t1 = t1 t2 = t2 None = None
  Invoice = {1, 2}
  Payment = {p1, p2}
  Document = {}
  Quote = {}
  Txn = {t1, t2}
  Totals = {1, 2}
  Allocations <- Splits
  Profiles <- On
  Stations <- NoPoint
  Ranks <- Spelled
  Replies <- Polite
  MaxAttempts = 1
SYMMETRY ReceivablesSymmetry
SPECIFICATION Spec
INVARIANT PaymentsInOrder
CHECK_DEADLOCK FALSE
