CONSTANTS
  r1 = r1 r2 = r2 r3 = r3 a1 = a1 a2 = a2 a3 = a3
  t1 = t1 t2 = t2 q1 = q1 None = None
  Reservation = {r1, r2}
  Asset = {a1}
  Fleet = {a1}
  Quote = {q1}
  Txn = {t1, t2}
  Resource <- OneResource
  LockKey <- TwoResources
  KeyOf <- SameKey
  Spelling <- UpperCase
  ResourceOf <- UnitsOfOne
  Tracked <- NoneTracked
  Window <- OneWindow
  Order <- OneUnit
  QuoteWindow <- QuotesEarly
  QuoteOrder <- QuotesOneEach
  Condition = {"GOOD"}
  Patch = {}
  NewUnit = {}
SPECIFICATION Spec
INVARIANT NoOverbooking
CHECK_DEADLOCK FALSE
