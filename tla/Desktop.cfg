SPECIFICATION Spec
CONSTANTS
  None = None
  Hosts <- MCHosts
  RingSlots = 2
  ReplySlots = 1
  MaxFrames = 3
  MaxDevices = 1
  MaxPending = 2
  MaxSessions = 2
  MaxAgents = 2
INVARIANT TypeOK
INVARIANT NoMissedReport
INVARIANT HandleLives
INVARIANT RepliesReachHost
INVARIANT PacketsConserved
INVARIANT InOrder
PROPERTY HandOver
PROPERTY ReaderFree
CHECK_DEADLOCK FALSE
