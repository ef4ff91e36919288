CONSTANTS
  r1 = r1 r2 = r2 r3 = r3 a1 = a1 a2 = a2 a3 = a3
  t1 = t1 t2 = t2 q1 = q1 None = None
  Reservation = {r1}
  Asset = {a1}
  Fleet = {a1}
  Quote = {}
  Txn = {t1, t2}
  Resource <- OneResource
  LockKey <- OneResource
  KeyOf <- SameKey
  Spelling <- OneSpelling
  ResourceOf <- UnitsOfOne
  Tracked <- OneResource
  Window <- OneWindow
  Order <- OneUnit
  QuoteWindow <- NoQuotes
  QuoteOrder <- NoQuotes
  Condition = {"GOOD", "DAMAGED"}
  Patch = {None}
  NewUnit = {}
SPECIFICATION Spec
PROPERTY InspectionStands
CHECK_DEADLOCK FALSE
