SPECIFICATION Spec
CONSTANTS
  Usb = {usb}
  User = {user}
  MaxChannels = 2
  MaxLen = 3
  QueueDepth = 2
  Lens = {2, 3, 4}
  CidSpace = 8
  FirstCids = {1, 6}
  MaxMsgs = 5
  MaxLost = 1
INVARIANT TypeOK
INVARIANT DispatchedWhole
INVARIANT NoSilence
INVARIANT IdsUsable
CHECK_DEADLOCK FALSE
