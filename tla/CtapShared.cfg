SPECIFICATION Spec
CONSTANTS
  rp1 = rp1
  rp2 = rp2
  usb = usb
  lan = lan
  Free = Free
  None = None
  Transports = {usb, lan}
  RPs = {rp1}
  MaxCreds = 3
  MaxIds = 3
  Lists = {{}, {1}, {1, 3}}
  FirstStores <- MCTwo
  Restores <- MCRestores
SYMMETRY Swap
VIEW MCView
INVARIANT WalkFaithful
PROPERTY CredentialsKept
PROPERTY ExclusionHolds
