SPECIFICATION FairSpec
CONSTANTS
  w1 = w1
  w2 = w2
  h1 = h1
  h2 = h2
  i1 = i1
  i2 = i2
  i3 = i3
  i4 = i4
  Workers <- TwoWorkers
  Hosts <- OneHost
  Infos <- TwoInfos
  LocalHosts <- NoHosts
  Loopback <- NoHosts
  VerifyAge = 0
  RetryAge = 1
  Validity = 1
  Lifetimes = {0}
  MaxNow = 1
  NoWorker = NoWorker
  NoHost = NoHost
  NoInfo = NoInfo
  NoCert = NoCert
  NoTime = NoTime

PROPERTY HandshakeAnswered
PROPERTY ImplementsCache
