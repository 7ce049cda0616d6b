SPECIFICATION FairSpec
CONSTANTS
  HeaderTimeout = TRUE
INVARIANT TypeOK
INVARIANT CancelInTime
INVARIANT CancelReported
INVARIANT CancelerCleared
INVARIANT BodySignalFits
PROPERTY CancelReturns
PROPERTY Released
PROPERTY BodyReaderReleased
