SPECIFICATION ConnSpec
CONSTANTS
  NConnect = 1
  NRequest = 2
  NResponse = 2
  NDone = 1
  Vias = {"direct", "http", "https"}
  MaxEarly = 1
  Size = 2
  SourceLen = 3
  ReqLen = 3
  ClientLen = 4
  DestLen = 2
  ApiLen = 2
CHECK_DEADLOCK FALSE
INVARIANT ConnTypeOK
INVARIANT AnsweredOnce
INVARIANT NoPlaintextToTLS
INVARIANT RejectIsFinal
INVARIANT UpstreamReleased
INVARIANT InOrder
INVARIANT EndKnown
INVARIANT TunnelInOrder
PROPERTY ReplaysStream
PROPERTY DialEnds
