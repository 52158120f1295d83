SPECIFICATION Spec
CONSTANTS
  k1 = k1  k2 = k2
  Client = {k1, k2}
  None = None
  Limits = {0}
  CacheCap = 1
  MaxDgram = 2
  MaxSession = 2
CHECK_DEADLOCK FALSE
INVARIANT
  DatagramsIntact
