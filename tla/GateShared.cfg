SPECIFICATION FairSpec
CONSTANTS
  Transports = {usb, user}
  None = None
  CacheTicks = 2
  DenyTicks = 2
  WaitTicks = 2
  MaxRequests = 3
INVARIANT WindowsExclusive
INVARIANT KeepaliveWithinTransaction
PROPERTY RefusalIsFinal
PROPERTY EveryRequestAnswered
