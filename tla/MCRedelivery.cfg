\* A webhook delivered again takes back an opt-out.
CONSTANTS
  m1 = m1 m2 = m2 m3 = m3 t1 = t1 t2 = t2 None = None
  Message = {m1, m2, m3}
  Kind <- Commands
  MaxReplies = 3
  MaxSends = 2
  MaxPerHour = 2
  Txn = {t1, t2}
SYMMETRY InboxSymmetry
SPECIFICATION Spec
CHECK_DEADLOCK FALSE
PROPERTY RedeliveryKeepsConsent
