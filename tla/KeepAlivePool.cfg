SPECIFICATION Spec
CONSTANTS
  u1 = u1
  u2 = u2
  u3 = u3
  c1 = c1
  c2 = c2
  k1 = k1
  k2 = k2
  Callers <- ThreeCallers
  Conns <- TwoConns
  Keys <- TwoKeys
  DisableKeepAlives = FALSE
  MaxIdleConnsPerHost = 1
  PeerClosesIdle = "always"
  BodyEnds = {"eof", "close"}
  NoConn = NoConn
  NoCaller = NoCaller
  NoKey = NoKey
SYMMETRY Interchangeable
INVARIANT TypeOK
INVARIANT PoolBounded
INVARIANT PoolExclusive
INVARIANT PoolServed
INVARIANT AnswerForItsRequest
PROPERTY ImplementsConnPool
