SPECIFICATION Spec
CONSTANTS
  Transports = {usb, user}
  None = None
  CacheTicks = 2
  DenyTicks = 2
  WaitTicks = 2
  MaxRequests = 2
INVARIANT OnlyUnansweredTimesOut
