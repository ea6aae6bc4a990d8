SPECIFICATION Spec
CONSTANTS
  None = None
  ReplyLens = {2}
  QueueDepth = 2
  EpFaults = TRUE
  MaxMsgs = 2
  MaxSessions = 3
INVARIANT TypeOK
INVARIANT InRequestOwned
INVARIANT FramesConserved
INVARIANT OrderlyKicks
INVARIANT DeadSessionDrained
CHECK_DEADLOCK FALSE
