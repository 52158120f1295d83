SPECIFICATION Spec
CONSTANTS
  Rid = {r1}
  Tf = {t1, t2}
  Copier = {c1, c2}
  Reporter = {h1, h2}
  Size = {1}
  None = None
  Serial = TRUE
  MaxRead = 2
  MaxReport = 3
CHECK_DEADLOCK FALSE
INVARIANTS
  NeverBilledTwice
  LostInGapOrRemoval
  DeliveredCounted
