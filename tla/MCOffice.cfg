\* An organization's members and invitations, its public site, and the requests
\* of a visitor.
CONSTANTS
  User = {founder, guest}
  Founder = founder
  Invitation = {i1, i2}
  Txn = {t1, t2}
  None = None
  Resource = {lights, stage}
  Price <- Prices
  Request = {q1, q2}
  Limit = 1
  Hour = 1
  MaxTime = 2
  MaxEdits = 1
SPECIFICATION Spec
SYMMETRY Symmetric
CHECK_DEADLOCK FALSE
INVARIANTS
  RequestsWithinLimit
  OneQuotePerRequest
  PricedAsItsLines
PROPERTIES
  JoinsOnce
