CONSTANTS
  r1 = r1 r2 = r2 r3 = r3 a1 = a1 a2 = a2 a3 = a3
  t1 = t1 t2 = t2 q1 = q1 None = None
  Reservation = {r1, r2}
  Asset = {a1, a2, a3}
  Fleet = {a1, a2, a3}
  Quote = {q1}
  Txn = {t1, t2}
  Resource <- OneResource
  LockKey <- OneResource
  KeyOf <- SameKey
  Spelling <- OneSpelling
  ResourceOf <- UnitsOfOne
  Tracked <- OneResource
  Window <- ThreeWindows
  Order <- OneOrTwoUnits
  QuoteWindow <- QuotesEarly
  QuoteOrder <- QuotesOneEach
  Condition = {"GOOD"}
  Patch = {}
  NewUnit = {}
SYMMETRY FloorSymmetry
SPECIFICATION Spec
INVARIANTS
  QuantityInv
  IInv
  UnitExclusiveUnlessMoved
  CompleteFromReady
  CustodyMatchesStatus
  NoOverbooking
  OneReservationPerQuote
PROPERTIES
  ImplementsLedger
CHECK_DEADLOCK FALSE
