SPECIFICATION Spec
CONSTANTS
  r1 = r1
  r2 = r2
  q1 = q1
  q2 = q2
  f1 = f1
  f2 = f2
  NoTrace = NoTrace
  Requests <- TwoRequests
  Commands <- TwoCommands
  Matches <- MCMatches
  Modifying <- MCModifying
  Files <- OneFile
  EntryCap = 1
  FlushCap = 1
  Settings <- MCSettings
INVARIANT TypeOK
INVARIANT LogConserved
INVARIANT CloakedStatus
INVARIANT FlushIdleKept
INVARIANT PanicCause
INVARIANT LogSendHeard
INVARIANT TakenThenGone
PROPERTY TraceNotLost
