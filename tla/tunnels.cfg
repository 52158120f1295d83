SPECIFICATION MCSpec
CONSTANTS
  r1 = r1  r2 = r2  c1 = c1
  Rid = {r1, r2}
  Conn = {c1}
  Tsp = {"ws"}
  Protocol <- SomeProtocols
  FreshAdds = TRUE
  MaxOps = 2
  MaxBoot = 2
CHECK_DEADLOCK FALSE
INVARIANTS
  TypeOK
  PairMatches
  MuxMatches
  DeadHasCause
PROPERTIES
  DialsMeet
  TunnelEnds
