SPECIFICATION Spec
CONSTANTS
  w1 = w1
  w2 = w2
  h1 = h1
  h2 = h2
  i1 = i1
  i2 = i2
  i3 = i3
  i4 = i4
  Workers <- TwoWorkers
  Hosts <- TwoHosts
  Infos <- FourInfos
  LocalHosts <- LocalOnes
  Loopback <- LocalOnes
  VerifyAge = 0
  RetryAge = 0
  Validity = 1
  Lifetimes <- BadAndShort
  MaxNow = 1
  NoWorker = NoWorker
  NoHost = NoHost
  NoInfo = NoInfo
  NoCert = NoCert
  NoTime = NoTime
SYMMETRY WorkerInfoSymmetry
INVARIANT TypeOK
INVARIANT PublishedReady
INVARIANT PrivateUntilStored
INVARIANT OneFetchPerEntry
PROPERTY ConfigImmutable
