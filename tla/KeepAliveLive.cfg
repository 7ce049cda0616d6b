SPECIFICATION FairSpec
CONSTANTS
  u1 = u1
  u2 = u2
  u3 = u3
  c1 = c1
  c2 = c2
  k1 = k1
  k2 = k2
  Callers <- TwoCallers
  Conns <- TwoConns
  Keys <- OneKey
  DisableKeepAlives = FALSE
  MaxIdleConnsPerHost = 1
  PeerClosesIdle = "never"
  BodyEnds = {"close"}
  NoConn = NoConn
  NoCaller = NoCaller
  NoKey = NoKey

PROPERTY RoundTripReturns
