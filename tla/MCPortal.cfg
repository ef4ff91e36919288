CONSTANTS
  q1 = q1 k1 = k1 k2 = k2 t1 = t1 t2 = t2 None = None
  Quote = {q1}
  Token = {k1, k2}
  Txn = {t1, t2}
  Settings <- AllSettings
  Validity = 1
  Horizon = 1
SPECIFICATION FairSpec
INVARIANTS
  PortalInv
  PortalFollowsQuote
  AcceptedOnlineIsReserved
  OnlyRevokeDeadlocks
PROPERTIES
  CurrentTokenDecides
  ImplementsOffer
  EveryRequestEnds
CHECK_DEADLOCK FALSE
