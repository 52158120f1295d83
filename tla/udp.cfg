SPECIFICATION MCSpec
CONSTANTS
  k1 = k1  k2 = k2
  Client = {k1}
  None = None
  Limits = {1, 2}
  CacheCap = 1
  MaxDgram = 2
  MaxSession = 2
CHECK_DEADLOCK FALSE
INVARIANTS
  LaterIntact
  OneSession
  SlotsCounted
PROPERTIES
  ShutdownEnds
