SPECIFICATION Spec
CONSTANTS
  q1 = q1  q2 = q2
  Req = {q1}
  ReqHeader <- SomeRequests
  ResHeader <- SomeResponses
  Hello <- SomeHellos
  MaxChunk <- Chunks
  MaxServe = 2
CHECK_DEADLOCK FALSE
INVARIANTS
  CopiedBack
