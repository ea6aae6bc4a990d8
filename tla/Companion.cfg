SPECIFICATION CompanionSpec
CONSTANTS
  Transports = {usb}
  None = None
  CacheTicks = 2
  DenyTicks = 2
  WaitTicks = 2
  MaxRequests = 3
INVARIANT ApprovedAsShown
INVARIANT AnswerDecidesOutcome
INVARIANT KeepaliveCoversWait
PROPERTY CooldownBlocks
