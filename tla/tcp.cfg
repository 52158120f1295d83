SPECIFICATION MCSpec
CONSTANTS
  c1 = c1  c2 = c2
  Conn = {c1, c2}
  Handlers <- SomeHandlers
  Limit = 1
  MaxServe = 2
CHECK_DEADLOCK FALSE
INVARIANTS
  SlotsCounted
  LateBounded
PROPERTIES
  Served
  LoopsEnd
  BothEnd
  ImplementsLimit
