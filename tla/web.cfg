SPECIFICATION FairSpec
CONSTANTS
  q1 = q1  q2 = q2
  Req = {q1, q2}
  ReqHeader <- SomeRequests
  ResHeader <- SomeResponses
  Hello <- SomeHellos
  MaxChunk <- Chunks
  MaxServe = 2
CHECK_DEADLOCK FALSE
INVARIANTS
  TypeOK
  TruncationIsVisible
  OneHopOnly
  FindsServerName
  ForwardedIntact
PROPERTIES
  NoFlushAfterReturn
  StreamShown
  ShutdownEnds
  TunnelEnds
